---- MODULE Spec2Model ----
(***************************************************************************)
(* Verification model of the Multi-Agent-AI-System document pipeline:      *)
(* the classifier's format detection cascade, the intent classifier with   *)
(* its keyword fallback, the JSON structure classifier and the            *)
(* orchestrating process_file handler.                                     *)
(*                                                                         *)
(* Python strings are TLA+ strings; startswith / endswith / in / lower /   *)
(* strip / slicing are computed character by character with SubSeq.        *)
(* JSON text is parsed by a recursive-descent parser that follows          *)
(* json.loads; parsed values are tagged records:                           *)
(*   [t |-> "str", str |-> s]      [t |-> "num", isfloat |-> b, c |-> n]   *)
(*   [t |-> "bool", bool |-> b]    [t |-> "null"]                          *)
(*   [t |-> "arr", arr |-> <<v1, ...>>]                                    *)
(*   [t |-> "obj", keys |-> <<k1, ...>>, vals |-> <<v1, ...>>]             *)
(* Numbers are kept in hundredths (c = 150050 is 1500.50); the input       *)
(* alphabets carry no \u escapes, no exponents and at most two fraction    *)
(* digits.                                                                 *)
(***************************************************************************)
EXTENDS Integers, Sequences, FiniteSets, TLC

VARIABLES
    input_data,   \* the input_data argument (its text, or str(input_data))
    inputIsStr,   \* isinstance(input_data, str)
    source,       \* the source hint argument
    isfile,       \* os.path.isfile(input_data), decided by the file system
    file_content, \* content of the file input_data names, when it exists
    file_decodes, \* whether that content is valid UTF-8
    pdf_library,  \* what the PDF library does with the document
    pc,           \* position of the running call
    fmt,          \* value returned by detect_format ("" before the call)
    text,         \* the text handed to the intent classifier
    llm,          \* what the call of the LLM capability does
    result,       \* value returned by the intent classifier
    intent,       \* intent returned by classify ("" before the call)
    thread_id,    \* thread_id returned by classify ("" before the call)
    redis,        \* the Redis server: thread_id -> JSON text of the context
    redis_client, \* per agent: its SharedMemory connected at construction
    fallback_storage, \* per agent: thread_id -> context, in process memory
    issued,       \* number of thread ids generated so far
    clock,        \* number of timestamps taken so far
    called,       \* the last save_context or update_context call
    returned,     \* value that call returned
    json_value,   \* data: the JSON value the JSON agent loaded (JNull before)
    structure_type, \* value returned by detect_structure_type ("" before)
    normalized,   \* what process_json_structure answered (NotNormalized before)
    agent_result, \* process_file's result: what the format agent returned
    output_logs,  \* output_logs/<thread_id>.json: thread_id -> JSON text
    in_flight,    \* per agent: the update_context call its process is running
    response      \* the HTTP response of the request

vars == <<input_data, inputIsStr, source, isfile, file_content, file_decodes, pdf_library,
          pc, fmt, text, llm, result, intent, thread_id,
          redis, redis_client, fallback_storage, issued, clock, called, returned,
          json_value, structure_type, normalized, agent_result, output_logs, response,
          in_flight>>

(***************************************************************************)
(* Bounds.                                                                 *)
(***************************************************************************)
\* Nesting depth at which json.loads runs out of interpreter stack
\* (sys.getrecursionlimit() in CPython, scaled down).
RecursionLimit == 4

(***************************************************************************)
(* Python str operations.                                                  *)
(***************************************************************************)
Char(s, i) == SubSeq(s, i, i)

Min(a, b) == IF a < b THEN a ELSE b

\* s[:n]
Prefix(s, n) == SubSeq(s, 1, Min(n, Len(s)))

\* s[i:] for a 1-based i
From(s, i) == SubSeq(s, i, Len(s))

StartsWith(s, p) == Len(p) <= Len(s) /\ SubSeq(s, 1, Len(p)) = p

EndsWith(s, p) == Len(p) <= Len(s) /\ SubSeq(s, Len(s) - Len(p) + 1, Len(s)) = p

\* p in s
Contains(s, p) == \E i \in 1..(Len(s) - Len(p) + 1) : SubSeq(s, i, i + Len(p) - 1) = p

\* p occurs in s at index i
At(s, i, p) == i + Len(p) - 1 <= Len(s) /\ SubSeq(s, i, i + Len(p) - 1) = p

UpperChars == "ABCDEFGHIJKLMNOPQRSTUVWXYZ"

LowerChars == "abcdefghijklmnopqrstuvwxyz"

LowerChar(c) ==
    IF \E i \in 1..Len(UpperChars) : Char(UpperChars, i) = c
    THEN Char(LowerChars, CHOOSE i \in 1..Len(UpperChars) : Char(UpperChars, i) = c)
    ELSE c

\* s[i..j] lower-cased, computed by halves
RECURSIVE LowerRange(_, _, _)
LowerRange(s, i, j) ==
    IF i > j THEN ""
    ELSE IF i = j THEN LowerChar(Char(s, i))
    ELSE LowerRange(s, i, (i + j) \div 2) \o LowerRange(s, ((i + j) \div 2) + 1, j)

Lower(s) == LowerRange(s, 1, Len(s))

Whitespace == {" ", "\t", "\n", "\r"}

RECURSIVE LStrip(_)
LStrip(s) == IF s # "" /\ Char(s, 1) \in Whitespace THEN LStrip(From(s, 2)) ELSE s

RECURSIVE RStrip(_)
RStrip(s) ==
    IF s # "" /\ Char(s, Len(s)) \in Whitespace THEN RStrip(SubSeq(s, 1, Len(s) - 1)) ELSE s

Strip(s) == LStrip(RStrip(s))

RECURSIVE Repeat(_, _)
Repeat(c, n) == IF n <= 0 THEN "" ELSE c \o Repeat(c, n - 1)

\* s.find(c, i - 1), 1-based, 0 when absent
IndexOf(s, c, i) ==
    IF \E j \in i..Len(s) : Char(s, j) = c
    THEN CHOOSE j \in i..Len(s) : Char(s, j) = c /\ \A k \in i..(j - 1) : Char(s, k) # c
    ELSE 0

\* s.rfind(c), 1-based, 0 when absent
LastIndexOf(s, c) ==
    IF \E j \in 1..Len(s) : Char(s, j) = c
    THEN CHOOSE j \in 1..Len(s) : Char(s, j) = c /\ \A k \in (j + 1)..Len(s) : Char(s, k) # c
    ELSE 0

\* os.path.splitext(p)[1]
SplitExt(p) ==
    LET sep == LastIndexOf(p, "/")
        dot == LastIndexOf(p, ".")
    IN  IF dot > sep /\ \E k \in (sep + 1)..(dot - 1) : Char(p, k) # "."
        THEN From(p, dot)
        ELSE ""

(***************************************************************************)
(* json.loads: values, scanner and the length of Python's str(value).      *)
(***************************************************************************)
JNull == [t |-> "null"]

JBool(b) == [t |-> "bool", bool |-> b]

JStr(s) == [t |-> "str", str |-> s]

JNum(isfloat, c) == [t |-> "num", isfloat |-> isfloat, c |-> c]

JArr(elems) == [t |-> "arr", arr |-> elems]

JObj(keys, vals) == [t |-> "obj", keys |-> keys, vals |-> vals]

\* key in dict
HasKey(o, k) == \E i \in 1..Len(o.keys) : o.keys[i] = k

\* dict[key]
Get(o, k) == o.vals[CHOOSE i \in 1..Len(o.keys) : o.keys[i] = k]

\* dict[key] = value while the object is being built: a repeated key keeps
\* its first position and takes the last value
ObjPut(o, k, v) ==
    IF HasKey(o, k)
    THEN JObj(o.keys, [i \in 1..Len(o.vals) |-> IF o.keys[i] = k THEN v ELSE o.vals[i]])
    ELSE JObj(Append(o.keys, k), Append(o.vals, v))

\* outcome of a scan: "ok" with the value and the index after it, "err" for
\* json.JSONDecodeError, "rec" for RecursionError
Ok(i, v) == [st |-> "ok", pos |-> i, val |-> v]

Fail(i) == [st |-> "err", pos |-> i, val |-> JNull]

TooDeep(i) == [st |-> "rec", pos |-> i, val |-> JNull]

Digits == "0123456789"

IsDigit(c) == \E i \in 1..10 : Char(Digits, i) = c

DigitVal(c) == (CHOOSE i \in 1..10 : Char(Digits, i) = c) - 1

RECURSIVE SkipWS(_, _)
SkipWS(s, i) == IF i <= Len(s) /\ Char(s, i) \in Whitespace THEN SkipWS(s, i + 1) ELSE i

\* index after the run of digits that starts at i
RECURSIVE DigitsEnd(_, _)
DigitsEnd(s, i) == IF i <= Len(s) /\ IsDigit(Char(s, i)) THEN DigitsEnd(s, i + 1) ELSE i

\* int(s) for a string of digits
RECURSIVE IntOf(_)
IntOf(s) == IF s = "" THEN 0 ELSE IntOf(SubSeq(s, 1, Len(s) - 1)) * 10 + DigitVal(Char(s, Len(s)))

\* hundredths denoted by the fraction digits f
FracOf(f) ==
    IF Len(f) = 0 THEN 0
    ELSE IF Len(f) = 1 THEN DigitVal(Char(f, 1)) * 10
    ELSE DigitVal(Char(f, 1)) * 10 + DigitVal(Char(f, 2))

\* the number whose integer digits are s[b..e-1] and whose fraction digits,
\* if any, end before fe
NumberValue(s, neg, b, e, fe) ==
    JNum(fe > e,
         (IF neg THEN -1 ELSE 1)
           * (IntOf(SubSeq(s, b, e - 1)) * 100
                + (IF fe > e THEN FracOf(SubSeq(s, e + 1, fe - 1)) ELSE 0)))

\* index after the optional fraction that may start at e
FractionEnd(s, e) ==
    IF At(s, e, ".") /\ DigitsEnd(s, e + 1) > e + 1 THEN DigitsEnd(s, e + 1) ELSE e

NumberFrom(s, i, neg, b, e) ==
    IF e = b THEN Fail(i)
    ELSE Ok(FractionEnd(s, e), NumberValue(s, neg, b, e, FractionEnd(s, e)))

\* index after the integer part (0 | [1-9]\d*) that starts at b
IntegerEnd(s, b) == IF At(s, b, "0") THEN b + 1 ELSE DigitsEnd(s, b)

\* NUMBER_RE = (-?(?:0|[1-9]\d*))(\.\d+)? matched at i
ScanNumber(s, i) ==
    IF At(s, i, "-")
    THEN NumberFrom(s, i, TRUE, i + 1, IntegerEnd(s, i + 1))
    ELSE NumberFrom(s, i, FALSE, i, IntegerEnd(s, i))

\* the character denoted by the escape \c, "" when \c is no escape of the
\* alphabet
Unescape(c) ==
    IF c = "n" THEN "\n"
    ELSE IF c = "t" THEN "\t"
    ELSE IF c = "r" THEN "\r"
    ELSE IF c \in {"\"", "\\", "/"} THEN c
    ELSE ""

\* the characters at which py_scanstring stops copying: the closing quote,
\* a backslash, and the control characters that strict mode rejects
StringStops == {"\"", "\\", "\n", "\t", "\r"}

\* index of the first of these at or after i, Len(s) + 1 when there is none
NextStop(s, i) ==
    IF \E j \in i..Len(s) : Char(s, j) \in StringStops
    THEN CHOOSE j \in i..Len(s) :
            /\ Char(s, j) \in StringStops
            /\ \A k \in i..(j - 1) : Char(s, k) \notin StringStops
    ELSE Len(s) + 1

RECURSIVE ScanChars(_, _, _)

\* the chunk s[i..j-1] has been read and s[j] is looked at
ChunkEnd(s, i, j, acc) ==
    IF j > Len(s) THEN Fail(i)
    ELSE IF Char(s, j) = "\"" THEN Ok(j + 1, JStr(acc \o SubSeq(s, i, j - 1)))
    ELSE IF Char(s, j) = "\\"
    THEN IF j + 1 > Len(s) \/ Unescape(Char(s, j + 1)) = "" THEN Fail(j)
         ELSE ScanChars(s, j + 2, acc \o SubSeq(s, i, j - 1) \o Unescape(Char(s, j + 1)))
    ELSE Fail(j)

\* py_scanstring (strict): the body of the string that starts at i, read up
\* to its closing quote; a raw control character or an unterminated string
\* is an error
ScanChars(s, i, acc) == ChunkEnd(s, i, NextStop(s, i), acc)

\* the string whose opening quote is at i - 1
ScanString(s, i) == ScanChars(s, i, "")

RECURSIVE ScanOnce(_, _, _)
RECURSIVE ScanMembers(_, _, _, _)
RECURSIVE ScanElements(_, _, _, _)

\* after a member: m is at the closing brace or at the comma
MemberNext(s, d, o, m) ==
    IF At(s, m, "}") THEN Ok(m + 1, o)
    ELSE IF At(s, m, ",") THEN ScanMembers(s, SkipWS(s, m + 1), d, o)
    ELSE Fail(m)

MemberAfterValue(s, d, o, key, v) ==
    IF v.st # "ok" THEN v
    ELSE MemberNext(s, d, ObjPut(o, key, v.val), SkipWS(s, v.pos))

MemberColon(s, d, o, key, j) ==
    IF ~At(s, j, ":") THEN Fail(j)
    ELSE MemberAfterValue(s, d, o, key, ScanOnce(s, SkipWS(s, j + 1), d))

MemberAfterKey(s, d, o, k) ==
    IF k.st # "ok" THEN k
    ELSE MemberColon(s, d, o, k.val.str, SkipWS(s, k.pos))

\* JSONObject after the opening brace: i is where a key's quote must be
ScanMembers(s, i, d, o) ==
    IF ~At(s, i, "\"") THEN Fail(i)
    ELSE MemberAfterKey(s, d, o, ScanString(s, i + 1))

\* after an element: m is at the closing bracket or at the comma
ElementNext(s, d, elems, m) ==
    IF At(s, m, "]") THEN Ok(m + 1, JArr(elems))
    ELSE IF At(s, m, ",") THEN ScanElements(s, SkipWS(s, m + 1), d, elems)
    ELSE Fail(m)

ElementAfterValue(s, d, elems, v) ==
    IF v.st # "ok" THEN v
    ELSE ElementNext(s, d, Append(elems, v.val), SkipWS(s, v.pos))

\* JSONArray after the opening bracket: i is where a value must start
ScanElements(s, i, d, elems) == ElementAfterValue(s, d, elems, ScanOnce(s, i, d))

\* JSONObject: j is the first index after the opening brace and whitespace
ObjectFrom(s, j, d) ==
    IF At(s, j, "}") THEN Ok(j + 1, JObj(<<>>, <<>>))
    ELSE ScanMembers(s, j, d + 1, JObj(<<>>, <<>>))

\* JSONArray: j is the first index after the opening bracket and whitespace
ArrayFrom(s, j, d) ==
    IF At(s, j, "]") THEN Ok(j + 1, JArr(<<>>))
    ELSE ScanElements(s, j, d + 1, <<>>)

\* scan_once(s, idx); d is the number of enclosing containers
ScanOnce(s, i, d) ==
    IF i > Len(s) THEN Fail(i)
    ELSE IF At(s, i, "\"") THEN ScanString(s, i + 1)
    ELSE IF At(s, i, "{")
    THEN IF d >= RecursionLimit THEN TooDeep(i) ELSE ObjectFrom(s, SkipWS(s, i + 1), d)
    ELSE IF At(s, i, "[")
    THEN IF d >= RecursionLimit THEN TooDeep(i) ELSE ArrayFrom(s, SkipWS(s, i + 1), d)
    ELSE IF At(s, i, "null") THEN Ok(i + 4, JNull)
    ELSE IF At(s, i, "true") THEN Ok(i + 4, JBool(TRUE))
    ELSE IF At(s, i, "false") THEN Ok(i + 5, JBool(FALSE))
    ELSE ScanNumber(s, i)

\* decode(): nothing but whitespace may follow the value
WholeDocument(s, r) ==
    IF r.st # "ok" THEN r
    ELSE IF SkipWS(s, r.pos) = Len(s) + 1 THEN r
    ELSE Fail(r.pos)

\* json.loads(s): leading and trailing whitespace allowed, nothing else
json_loads(s) == WholeDocument(s, ScanOnce(s, SkipWS(s, 1), 0))

\* number of decimal digits of a natural number
RECURSIVE NumDigits(_)
NumDigits(n) == IF n < 10 THEN 1 ELSE 1 + NumDigits(n \div 10)

Abs(n) == IF n < 0 THEN 0 - n ELSE n

\* len(str(x)) of a number of magnitude a (in hundredths)
MagnitudeReprLen(isfloat, a) ==
    IF ~isfloat THEN NumDigits(a \div 100)
    ELSE NumDigits(a \div 100) + 1 + (IF (a % 100) % 10 = 0 THEN 1 ELSE 2)

\* len(str(x)) of a parsed number
NumReprLen(v) == (IF v.c < 0 THEN 1 ELSE 0) + MagnitudeReprLen(v.isfloat, Abs(v.c))

\* len(str(parsed)) of a parsed JSON value
RECURSIVE ReprLen(_)
RECURSIVE ReprLenSum(_, _)
ReprLen(v) ==
    CASE v.t = "str" -> Len(v.str) + 2
      [] v.t = "num" -> NumReprLen(v)
      [] v.t = "bool" -> IF v.bool THEN 4 ELSE 5
      [] v.t = "null" -> 4
      [] v.t = "arr" ->
            2 + ReprLenSum(v.arr, Len(v.arr))
              + (IF Len(v.arr) > 1 THEN 2 * (Len(v.arr) - 1) ELSE 0)
      [] v.t = "obj" ->
            2 + ReprLenSum(v.vals, Len(v.vals))
              + ReprLenSum([i \in 1..Len(v.keys) |-> JStr(v.keys[i])], Len(v.keys))
              + 2 * Len(v.keys)
              + (IF Len(v.keys) > 1 THEN 2 * (Len(v.keys) - 1) ELSE 0)

ReprLenSum(vs, n) == IF n = 0 THEN 0 ELSE ReprLen(vs[n]) + ReprLenSum(vs, n - 1)

(***************************************************************************)
(* json.dumps and str() of parsed values.                                  *)
(***************************************************************************)
\* str(n) for a natural number
RECURSIVE IntToStr(_)
IntToStr(n) ==
    IF n < 10 THEN Char(Digits, n + 1) ELSE IntToStr(n \div 10) \o Char(Digits, (n % 10) + 1)

\* the fraction digits of repr(float) for h hundredths
FracToStr(h) ==
    IF h % 10 = 0 THEN Char(Digits, (h \div 10) + 1)
    ELSE Char(Digits, (h \div 10) + 1) \o Char(Digits, (h % 10) + 1)

MagnitudeToStr(isfloat, a) ==
    IF isfloat THEN IntToStr(a \div 100) \o "." \o FracToStr(a % 100) ELSE IntToStr(a \div 100)

\* str(x) of a parsed number
NumToStr(v) == (IF v.c < 0 THEN "-" ELSE "") \o MagnitudeToStr(v.isfloat, Abs(v.c))

EscapeChar(c) ==
    IF c = "\"" THEN "\\\""
    ELSE IF c = "\\" THEN "\\\\"
    ELSE IF c = "\n" THEN "\\n"
    ELSE IF c = "\r" THEN "\\r"
    ELSE IF c = "\t" THEN "\\t"
    ELSE c

\* s[i..j] with its characters escaped, computed by halves
RECURSIVE EscapeRange(_, _, _)
EscapeRange(s, i, j) ==
    IF i > j THEN ""
    ELSE IF i = j THEN EscapeChar(Char(s, i))
    ELSE EscapeRange(s, i, (i + j) \div 2) \o EscapeRange(s, ((i + j) \div 2) + 1, j)

\* the body of a JSON string literal
Escape(s) == EscapeRange(s, 1, Len(s))

Quoted(s) == "\"" \o Escape(s) \o "\""

\* the separator before item n of a container at nesting level lvl:
\* json.dumps(obj) uses ", ", json.dumps(obj, indent=2) a newline and the
\* indentation
ItemStart(pretty, lvl, first) ==
    IF pretty THEN (IF first THEN "\n" ELSE ",\n") \o Repeat(" ", 2 * (lvl + 1))
    ELSE IF first THEN "" ELSE ", "

ItemsEnd(pretty, lvl) == IF pretty THEN "\n" \o Repeat(" ", 2 * lvl) ELSE ""

RECURSIVE Dumps(_, _, _)
RECURSIVE DumpElements(_, _, _, _)
RECURSIVE DumpMembers(_, _, _, _)

\* the first n elements of a list, each preceded by its separator
DumpElements(elems, n, pretty, lvl) ==
    IF n = 0 THEN ""
    ELSE DumpElements(elems, n - 1, pretty, lvl)
           \o ItemStart(pretty, lvl, n = 1) \o Dumps(elems[n], pretty, lvl + 1)

\* the first n members of a dict, each preceded by its separator
DumpMembers(o, n, pretty, lvl) ==
    IF n = 0 THEN ""
    ELSE DumpMembers(o, n - 1, pretty, lvl)
           \o ItemStart(pretty, lvl, n = 1) \o Quoted(o.keys[n]) \o ": "
           \o Dumps(o.vals[n], pretty, lvl + 1)

\* json.dumps(v) (pretty = FALSE) and json.dumps(v, indent=2) (pretty = TRUE)
Dumps(v, pretty, lvl) ==
    CASE v.t = "str" -> Quoted(v.str)
      [] v.t = "num" -> NumToStr(v)
      [] v.t = "bool" -> IF v.bool THEN "true" ELSE "false"
      [] v.t = "null" -> "null"
      [] v.t = "arr" ->
            IF Len(v.arr) = 0 THEN "[]"
            ELSE "[" \o DumpElements(v.arr, Len(v.arr), pretty, lvl)
                     \o ItemsEnd(pretty, lvl) \o "]"
      [] v.t = "obj" ->
            IF Len(v.keys) = 0 THEN "{}"
            ELSE "{" \o DumpMembers(v, Len(v.keys), pretty, lvl)
                     \o ItemsEnd(pretty, lvl) \o "}"

\* f"{value}" of a scalar
Str(v) ==
    CASE v.t = "str" -> v.str
      [] v.t = "num" -> NumToStr(v)
      [] v.t = "bool" -> IF v.bool THEN "True" ELSE "False"
      [] v.t = "null" -> "None"

(***************************************************************************)
(* base64.b64decode (non-strict): characters outside the alphabet are      *)
(* discarded, a pad sequence that completes a quad ends the decoding, and  *)
(* leftover sextets at the end of the input raise binascii.Error.          *)
(***************************************************************************)
B64Alphabet == "ABCDEFGHIJKLMNOPQRSTUVWXYZabcdefghijklmnopqrstuvwxyz0123456789+/"

IsB64(c) == \E i \in 1..64 : Char(B64Alphabet, i) = c

B64Index(c) == (CHOOSE i \in 1..64 : Char(B64Alphabet, i) = c) - 1

\* number of alphabet characters before index i
DataBefore(s, i) == Cardinality({k \in 1..(i - 1) : IsB64(Char(s, k))})

\* a pad was read since the last alphabet character before index i
PadBefore(s, i) ==
    \E k \in 1..(i - 1) :
        Char(s, k) = "=" /\ \A m \in (k + 1)..(i - 1) : ~IsB64(Char(s, m))

\* the pad at index i completes the quad: the decoder stops there
PadEnds(s, i, quad) ==
    Char(s, i) = "=" /\ (quad = 3 \/ (quad = 2 /\ PadBefore(s, i)))

\* index at which the decoder stops, Len(s) + 1 when it reads all of s
B64Stop(s) ==
    IF \E i \in 1..Len(s) : PadEnds(s, i, DataBefore(s, i) % 4)
    THEN CHOOSE i \in 1..Len(s) :
            /\ PadEnds(s, i, DataBefore(s, i) % 4)
            /\ \A j \in 1..(i - 1) : ~PadEnds(s, j, DataBefore(s, j) % 4)
    ELSE Len(s) + 1

\* the indices below stop that hold an alphabet character, in order
DataPositions(s, stop) ==
    SelectSeq([k \in 1..(stop - 1) |-> k], LAMBDA k : IsB64(Char(s, k)))

Sextets(s, positions) == [n \in 1..Len(positions) |-> B64Index(Char(s, positions[n]))]

B64Stopped(s, stop) ==
    [ok |-> stop <= Len(s) \/ DataBefore(s, Len(s) + 1) % 4 = 0,
     data |-> Sextets(s, DataPositions(s, stop))]

\* the sextets read before the decoder stops; ok is FALSE when it raises
B64Scan(s) == B64Stopped(s, B64Stop(s))

\* byte k of the decoded output
B64Byte(data, q, r) ==
    IF r = 0 THEN data[q + 1] * 4 + data[q + 2] \div 16
    ELSE IF r = 1 THEN (data[q + 2] % 16) * 16 + data[q + 3] \div 4
    ELSE (data[q + 3] % 4) * 64 + data[q + 4]

\* the decoded bytes (complete bytes only)
B64Bytes(data) ==
    [k \in 1..((6 * Len(data)) \div 8) |-> B64Byte(data, ((k - 1) \div 3) * 4, (k - 1) % 3)]

\* b'%PDF'
PDFMagic == <<37, 80, 68, 70>>

\* bytes.startswith(b'%PDF')
BytesArePDF(bytes) == Len(bytes) >= 4 /\ SubSeq(bytes, 1, 4) = PDFMagic

DecodedIsPDF(r) == r.ok /\ BytesArePDF(B64Bytes(r.data))

\* base64.b64decode(s).startswith(b'%PDF'), FALSE when the decoding raises
B64DecodesToPDF(s) == DecodedIsPDF(B64Scan(s))

(***************************************************************************)
(* ClassifierAgent.detect_format.  Each priority block yields a format,    *)
(* "NONE" when it falls through to the next block, or "RAISE" when an      *)
(* exception leaves it for the handler of the enclosing try.               *)
(***************************************************************************)
Formats == {"PDF", "JSON", "Email"}

\* padded_data = input_data + '=' * (4 - len(input_data) % 4);
\* base64.b64decode(padded_data[:100]).startswith(b'%PDF')
Base64HeaderIsPDF(data) ==
    B64DecodesToPDF(Prefix(data \o Repeat("=", 4 - (Len(data) % 4)), 100))

\* outcome of json.loads inside try/except (json.JSONDecodeError, ValueError)
JsonOutcome(r) ==
    IF r.st = "ok" THEN "JSON" ELSE IF r.st = "rec" THEN "RAISE" ELSE "NONE"

JsonAttempt(txt) == JsonOutcome(json_loads(txt))

\* ContentOfUpload without the guard on the source: content sniffing would
\* then run before the extension of the source is looked at
ContentOfUpload_AnySource(data, isstr, src) ==
    IF isstr
    THEN IF Len(data) > 20 /\ StartsWith(data, "JVBERi") THEN "PDF"
         ELSE IF Len(data) > 20 /\ Base64HeaderIsPDF(data) THEN "PDF"
         ELSE JsonAttempt(data)
    ELSE "NONE"

\* Priority 1: content-based detection for file uploads
ContentOfUpload(data, isstr, src) ==
    IF src = "file_upload" /\ isstr
    THEN IF Len(data) > 20 /\ StartsWith(data, "JVBERi") THEN "PDF"
         ELSE IF Len(data) > 20 /\ Base64HeaderIsPDF(data) THEN "PDF"
         ELSE JsonAttempt(data)
    ELSE "NONE"

\* stripped_data.startswith(('{', '['))
StartsLikeJson(stripped) == StartsWith(stripped, "{") \/ StartsWith(stripped, "[")

\* for an API source: JSON when the stripped input parses
ApiJson(stripped) == IF StartsLikeJson(stripped) THEN JsonAttempt(stripped) ELSE "NONE"

\* file extension of the (lower-cased) source, then source type hints
HintsOfLowered(data, isstr, ls) ==
    IF EndsWith(ls, ".pdf") THEN "PDF"
    ELSE IF EndsWith(ls, ".json") THEN "JSON"
    ELSE IF EndsWith(ls, ".eml") \/ EndsWith(ls, ".txt") \/ EndsWith(ls, ".email")
    THEN "Email"
    ELSE IF Contains(ls, "email") THEN "Email"
    ELSE IF Contains(ls, "json") \/ Contains(ls, "api")
    THEN IF isstr THEN ApiJson(Strip(data)) ELSE "NONE"
    ELSE "NONE"

\* Priority 2: source-based detection hints
SourceHints(data, isstr, src) == HintsOfLowered(data, isstr, Lower(src))

FormatOfExtension(ext) ==
    IF ext = ".pdf" THEN "PDF"
    ELSE IF ext = ".json" THEN "JSON"
    ELSE IF ext \in {".eml", ".msg"} THEN "Email"
    ELSE "NONE"

\* Priority 3: input_data is the path of an existing file
FilePathExtension(data, isstr, exists) ==
    IF isstr /\ exists THEN FormatOfExtension(Lower(SplitExt(data))) ELSE "NONE"

email_indicators ==
    {"From:", "To:", "Subject:", "Date:", "Message-ID:", "Content-Type:",
     "Return-Path:", "Received:", "Reply-To:", "X-", "@"}

\* JSON detection on the stripped text: a dict or list whose str() is longer
\* than 10 characters
MeaningfulJson(r) ==
    IF r.st = "rec" THEN "RAISE"
    ELSE IF r.st = "ok" /\ r.val.t \in {"obj", "arr"} /\ ReprLen(r.val) > 10 THEN "JSON"
    ELSE "NONE"

\* EmailContent looking for the indicators at the start of the text only
EmailContent_HeaderAtStart(stripped) ==
    IF (\E ind \in email_indicators : StartsWith(stripped, ind)) /\ ~StartsLikeJson(stripped)
    THEN "Email"
    ELSE "NONE"

\* email detection on the stripped text
EmailContent(stripped) ==
    IF (\E ind \in email_indicators : Contains(stripped, ind)) /\ ~StartsLikeJson(stripped)
    THEN "Email"
    ELSE "NONE"

\* a or else b: the first block that does not fall through
OrElse(a, b) == IF a # "NONE" THEN a ELSE b

AnalyseStripped(stripped) ==
    OrElse(IF StartsLikeJson(stripped) THEN MeaningfulJson(json_loads(stripped)) ELSE "NONE",
           EmailContent(stripped))

\* Priority 4: content analysis for strings
ContentAnalysis(data, isstr) ==
    IF isstr /\ Len(Strip(data)) > 0 THEN AnalyseStripped(Strip(data)) ELSE "NONE"

\* Priority 5, and the handler of the enclosing try: defaults by source
SourceDefault(src) ==
    IF src = "file_upload" THEN "PDF"
    ELSE IF src \in {"api_call", "json_input"} THEN "JSON"
    ELSE "Email"

\* the body of the try block
DetectBody(data, isstr, src, exists) ==
    OrElse(ContentOfUpload(data, isstr, src),
    OrElse(SourceHints(data, isstr, src),
    OrElse(FilePathExtension(data, isstr, exists),
    OrElse(ContentAnalysis(data, isstr),
           SourceDefault(src)))))

\* an exception that leaves the body goes unhandled
Handled_Not(outcome, src) == outcome

\* except Exception: safe fallback based on source
Handled(outcome, src) == IF outcome = "RAISE" THEN SourceDefault(src) ELSE outcome

detect_format(data, isstr, src, exists) == Handled(DetectBody(data, isstr, src, exists), src)

(***************************************************************************)
(* ClassifierAgent.extract_text.  The PDF library is part of the           *)
(* environment: pdf is what PyPDF2 does with the document,                 *)
(*   [raises |-> TRUE, error |-> str(e), error_type |-> type(e).__name__]  *)
(*   [raises |-> FALSE, pages |-> <<text of page 1, ...>>]                 *)
(* A helper yields [raises |-> FALSE, text |-> t] or                       *)
(* [raises |-> TRUE, error |-> str(e), error_type |-> name].               *)
(***************************************************************************)
Returns(t) == [raises |-> FALSE, text |-> t]

Raises(type, message) == [raises |-> TRUE, error |-> message, error_type |-> type]

\* the text gathered from the pages: extracted + "\n" for every page whose
\* text is not blank
RECURSIVE PagesText(_, _)
PagesText(pages, n) ==
    IF n = 0 THEN ""
    ELSE PagesText(pages, n - 1)
           \o (IF Strip(pages[n]) # "" THEN pages[n] \o "\n" ELSE "")

NoReadableText(total_pages) ==
    "PDF document (" \o IntToStr(total_pages)
      \o " pages) - No readable text found. This could be a scanned PDF or contain only images."

ExtractedOrNotice(extracted_text, total_pages) ==
    IF extracted_text # "" THEN extracted_text ELSE NoReadableText(total_pages)

\* error_info of _read_pdf_content
ReaderErrorInfo(e, source_type, size) ==
    JObj(<<"error", "error_type", "pdf_source_type", "content_size">>,
         <<JStr(e.error), JStr(e.error_type), JStr(source_type), JNum(FALSE, 100 * size)>>)

ReaderFailure(e, source_type, size) ==
    Raises("ValueError",
           "PDF processing failed: " \o Dumps(ReaderErrorInfo(e, source_type, size), FALSE, 0))

\* what the reader did, with the document without pages turned into an error
ReaderOutcome(pdf) ==
    IF ~pdf.raises /\ Len(pdf.pages) = 0 THEN Raises("ValueError", "PDF has no pages") ELSE pdf

ReadOutcome(o, source_type, size) ==
    IF o.raises THEN ReaderFailure(o, source_type, size)
    ELSE Returns(ExtractedOrNotice(Strip(PagesText(o.pages, Len(o.pages))), Len(o.pages)))

\* _read_pdf_content(pdf_source)
read_pdf_content(pdf, source_type, size) == ReadOutcome(ReaderOutcome(pdf), source_type, size)

\* message of the binascii.Error raised on leftover sextets
B64ErrorMessage(n) ==
    IF n % 4 = 1
    THEN "Invalid base64-encoded string: number of data characters (" \o IntToStr(n)
           \o ") cannot be 1 more than a multiple of 4"
    ELSE "Incorrect padding"

\* the characters of the bytes 32..126 (byte 96, which a TLA+ string cannot
\* hold, is written "?"; no input below decodes to it)
AsciiPrintable ==
    " !\"#$%&'()*+,-./0123456789:;<=>?@ABCDEFGHIJKLMNOPQRSTUVWXYZ[\\]^_?abcdefghijklmnopqrstuvwxyz{|}~"

HexDigits == "0123456789abcdef"

\* repr of one byte inside a bytes literal delimited by quote
ByteRepr(b, quote) ==
    IF b = 9 THEN "\\t"
    ELSE IF b = 10 THEN "\\n"
    ELSE IF b = 13 THEN "\\r"
    ELSE IF b = 92 THEN "\\\\"
    ELSE IF b = 39 /\ quote = "'" THEN "\\'"
    ELSE IF b >= 32 /\ b <= 126 THEN Char(AsciiPrintable, b - 31)
    ELSE "\\x" \o Char(HexDigits, (b \div 16) + 1) \o Char(HexDigits, (b % 16) + 1)

RECURSIVE BytesReprBody(_, _, _)
BytesReprBody(bytes, n, quote) ==
    IF n = 0 THEN "" ELSE BytesReprBody(bytes, n - 1, quote) \o ByteRepr(bytes[n], quote)

BytesQuote(bytes) ==
    IF (\E k \in 1..Len(bytes) : bytes[k] = 39) /\ ~(\E k \in 1..Len(bytes) : bytes[k] = 34)
    THEN "\"" ELSE "'"

Delimited(bytes, quote) == "b" \o quote \o BytesReprBody(bytes, Len(bytes), quote) \o quote

\* repr(bytes)
BytesRepr(bytes) == Delimited(bytes, BytesQuote(bytes))

\* the payload of a data: URL
CleanedBase64(cleaned) ==
    IF StartsWith(cleaned, "data:") /\ Contains(cleaned, ",")
    THEN From(cleaned, IndexOf(cleaned, ",", 1) + 1)
    ELSE cleaned

\* add padding if needed
PaddedBase64(cleaned) ==
    IF Len(cleaned) % 4 # 0 THEN cleaned \o Repeat("=", 4 - (Len(cleaned) % 4)) ELSE cleaned

\* validate the PDF header of the decoded bytes, then read them
DecodedPdf(pdf, bytes) ==
    IF Len(bytes) < 5
    THEN Raises("ValueError", "Decoded content too short to be a valid PDF")
    ELSE IF ~BytesArePDF(bytes)
    THEN Raises("ValueError",
                "Invalid PDF: Missing PDF header. Got: " \o BytesRepr(SubSeq(bytes, 1, Min(10, Len(bytes)))))
    ELSE read_pdf_content(pdf, "BytesIO", Len(bytes))

Base64Decoded(pdf, r) ==
    IF ~r.ok
    THEN Raises("ValueError", "Invalid base64 encoding: " \o B64ErrorMessage(Len(r.data)))
    ELSE DecodedPdf(pdf, B64Bytes(r.data))

Base64Checked(pdf, cleaned) ==
    IF cleaned = "" THEN Raises("ValueError", "Empty base64 data")
    ELSE Base64Decoded(pdf, B64Scan(PaddedBase64(cleaned)))

\* error_details of _extract_pdf_text
ExtractionErrorDetails(data, e) ==
    JObj(<<"error_type", "error_message", "content_length", "content_preview",
           "starts_with_pdf_signature">>,
         <<JStr(e.error_type), JStr(e.error), JNum(FALSE, 100 * Len(data)),
           JStr(IF Len(data) > 50 THEN Prefix(data, 50) \o "..." ELSE data),
           JBool(data # "" /\ StartsWith(data, "JVBERi"))>>)

\* the handler around the base64 branch turns every error into a text
ExtractionHandled(data, o) ==
    IF o.raises
    THEN Returns("PDF extraction failed: " \o Dumps(ExtractionErrorDetails(data, o), TRUE, 0))
    ELSE o

\* _extract_pdf_text(input_data): a file path, or base64 encoded content;
\* size is the size of the file
extract_pdf_text(data, exists, size, pdf) ==
    IF exists THEN read_pdf_content(pdf, "BufferedReader", size)
    ELSE ExtractionHandled(data, Base64Checked(pdf, CleanedBase64(Strip(data))))

RECURSIVE KeyInfo(_, _)
RECURSIVE DictInfo(_, _, _)
RECURSIVE ListInfo(_, _, _)

\* a nested value is descended into, any other value gives one line
EntryInfo(value, current_key) ==
    IF value.t \in {"obj", "arr"} THEN KeyInfo(value, current_key)
    ELSE <<current_key \o ": " \o Str(value)>>

CurrentKey(prefix, key) == IF prefix # "" THEN prefix \o "." \o key ELSE key

\* the lines of the first n members of a dict
DictInfo(o, prefix, n) ==
    IF n = 0 THEN <<>>
    ELSE DictInfo(o, prefix, n - 1) \o EntryInfo(o.vals[n], CurrentKey(prefix, o.keys[n]))

\* the lines of the first n items of a list
ListInfo(elems, prefix, n) ==
    IF n = 0 THEN <<>>
    ELSE ListInfo(elems, prefix, n - 1)
           \o EntryInfo(elems[n], prefix \o "[" \o IntToStr(n - 1) \o "]")

\* extract_key_info(obj, prefix): the formatted lines
KeyInfo(obj, prefix) ==
    IF obj.t = "obj" THEN DictInfo(obj, prefix, Len(obj.keys))
    ELSE IF obj.t = "arr" THEN ListInfo(obj.arr, prefix, Len(obj.arr))
    ELSE <<>>

\* "\n".join(lines[1..n])
RECURSIVE JoinLines(_, _)
JoinLines(lines, n) ==
    IF n = 0 THEN ""
    ELSE IF n = 1 THEN lines[1]
    ELSE JoinLines(lines, n - 1) \o "\n" \o lines[n]

ClassificationText(lines, original_json) ==
    Strip("\nSTRUCTURED DATA ANALYSIS:\n" \o JoinLines(lines, Len(lines))
            \o "\n\nORIGINAL JSON STRUCTURE:\n" \o original_json \o "\n")

\* _format_json_for_classification(json_data)
format_json_for_classification(json_data) ==
    ClassificationText(KeyInfo(json_data, ""), Dumps(json_data, TRUE, 0))

\* json.loads of the content of the file; a failure leaves _extract_json_text
LoadedFromFile(r) ==
    IF r.st = "ok" THEN Returns(format_json_for_classification(r.val))
    ELSE IF r.st = "rec" THEN Raises("RecursionError", "")
    ELSE Raises("JSONDecodeError", "")

\* json.loads of direct content; json.JSONDecodeError returns the input
LoadedDirect(data, r) ==
    IF r.st = "ok" THEN Returns(format_json_for_classification(r.val))
    ELSE IF r.st = "rec" THEN Raises("RecursionError", "")
    ELSE Returns(data)

\* _extract_json_text(input_data); decodes says whether the file is UTF-8
extract_json_text(data, exists, content, decodes) ==
    IF exists
    THEN IF decodes THEN LoadedFromFile(json_loads(content))
         ELSE Raises("UnicodeDecodeError", "")
    ELSE LoadedDirect(data, json_loads(Strip(data)))

\* _extract_email_text(input_data)
extract_email_text(data, exists, content, decodes) ==
    IF exists
    THEN IF decodes THEN Returns(content) ELSE Raises("UnicodeDecodeError", "")
    ELSE Returns(data)

ExtractByType(data, input_type, exists, content, decodes, pdf) ==
    IF input_type = "PDF" THEN extract_pdf_text(data, exists, Len(content), pdf)
    ELSE IF input_type = "JSON" THEN extract_json_text(data, exists, content, decodes)
    ELSE extract_email_text(data, exists, content, decodes)

\* the handler of extract_text: a failed extraction gives a notice for a PDF
\* and the truncated input otherwise
ExtractHandled(data, input_type, o) ==
    IF ~o.raises THEN o.text
    ELSE IF input_type = "PDF"
    THEN "PDF processing failed: " \o o.error \o " (Content length: "
           \o IntToStr(Len(data)) \o ")"
    ELSE Prefix(data, 1000)

\* extract_text(input_data, input_type) for a str input_data
extract_text(data, input_type, exists, content, decodes, pdf) ==
    ExtractHandled(data, input_type,
                   ExtractByType(data, input_type, exists, content, decodes, pdf))

(***************************************************************************)
(* LLMService.classify_intent and its keyword fallback.  Confidences are   *)
(* JSON numbers in hundredths: 0.8 is JNum(TRUE, 80).                      *)
(***************************************************************************)
\* ClassifierAgent.intents
intents == <<"Invoice", "RFQ", "Complaint", "Regulation", "General Inquiry">>

IntentSet == {intents[i] : i \in 1..Len(intents)}

complaint_keywords ==
    {"complaint", "dissatisfied", "problem", "issue", "error", "wrong", "bad",
     "terrible", "awful", "unacceptable"}

request_keywords ==
    {"quote", "quotation", "rfq", "request", "inquiry", "product", "purchase",
     "buy", "pricing", "cost"}

billing_keywords ==
    {"invoice", "bill", "payment", "charge", "amount", "total", "due", "paid",
     "$", "price"}

regulatory_keywords ==
    {"regulation", "compliance", "policy", "rule", "law", "requirement"}

\* any(keyword in text_lower for keyword in keywords)
AnyKeyword(text_lower, keywords) == \E kw \in keywords : Contains(text_lower, kw)

\* {"intent": ..., "confidence": ..., "reasoning": ...}
IntentResult(label, confidence, reasoning) ==
    JObj(<<"intent", "confidence", "reasoning">>,
         <<JStr(label), JNum(TRUE, confidence), JStr(reasoning)>>)

\* the keyword scan with the billing category tested before the request
\* category
KeywordScan_BillingFirst(text_lower) ==
    IF AnyKeyword(text_lower, complaint_keywords)
    THEN IntentResult("Complaint", 80, "Keyword-based: complaint indicators")
    ELSE IF AnyKeyword(text_lower, billing_keywords)
    THEN IntentResult("Invoice", 80, "Keyword-based: financial/billing indicators")
    ELSE IF AnyKeyword(text_lower, request_keywords)
    THEN IntentResult("RFQ", 80, "Keyword-based: request/inquiry indicators")
    ELSE IF AnyKeyword(text_lower, regulatory_keywords)
    THEN IntentResult("Regulation", 80, "Keyword-based: regulatory indicators")
    ELSE IntentResult("General Inquiry", 60, "Keyword-based: default classification")

\* the if / elif chain over text_lower
KeywordScan(text_lower) ==
    IF AnyKeyword(text_lower, complaint_keywords)
    THEN IntentResult("Complaint", 80, "Keyword-based: complaint indicators")
    ELSE IF AnyKeyword(text_lower, request_keywords)
    THEN IntentResult("RFQ", 80, "Keyword-based: request/inquiry indicators")
    ELSE IF AnyKeyword(text_lower, billing_keywords)
    THEN IntentResult("Invoice", 80, "Keyword-based: financial/billing indicators")
    ELSE IF AnyKeyword(text_lower, regulatory_keywords)
    THEN IntentResult("Regulation", 80, "Keyword-based: regulatory indicators")
    ELSE IntentResult("General Inquiry", 60, "Keyword-based: default classification")

\* LLMService._fallback_intent_classification
fallback_intent_classification(txt) == KeywordScan(Lower(txt))

\* re.search(r'\{.*\}', content, re.DOTALL): from the first { to the last },
\* "nomatch" when no } follows a {
JsonMatchBetween(content, first, last) ==
    IF first = 0 \/ last < first
    THEN [st |-> "nomatch", pos |-> 0, val |-> JNull]
    ELSE json_loads(SubSeq(content, first, last))

\* json.loads(json_match.group()) of the reply text
ReplyJson(content) ==
    JsonMatchBetween(content, IndexOf(content, "{", 1), LastIndexOf(content, "}"))

\* dict.get(key, default)
GetOr(o, k, default) == IF HasKey(o, k) THEN Get(o, k) ELSE default

\* result.get('intent') in possible_intents
IntentInList(value) == value.t = "str" /\ value.str \in IntentSet

\* the validation of the parsed reply with a case-insensitive comparison
Validated_IgnoringCase(txt, r) ==
    IF r.st = "ok" /\ GetOr(r.val, "intent", JNull).t = "str"
         /\ \E i \in IntentSet : Lower(i) = Lower(GetOr(r.val, "intent", JNull).str)
    THEN r.val
    ELSE fallback_intent_classification(txt)

\* the parsed reply when its intent is in the list, the keyword fallback when
\* there is no JSON in the reply, it does not parse, or its intent is off-list
Validated(txt, r) ==
    IF r.st = "ok" /\ IntentInList(GetOr(r.val, "intent", JNull))
    THEN r.val
    ELSE fallback_intent_classification(txt)

\* LLMService.classify_intent; reply is what _call_gemini does: it raises
\* (network or HTTP error, malformed envelope) or yields the text of the
\* first candidate
classify_intent(txt, reply) ==
    IF reply.raises
    THEN fallback_intent_classification(txt)
    ELSE Validated(txt, ReplyJson(reply.content))

(***************************************************************************)
(* SharedMemory.  Every agent constructs a SharedMemory of its own: the    *)
(* Redis server is common to all of them, redis_client and                 *)
(* fallback_storage belong to the instance.  A call on the server may      *)
(* fail (redis_ok = FALSE) while the client exists.                        *)
(***************************************************************************)
Agents == {"classifier", "json_agent", "email_agent", "pdf_agent"}

\* an empty dict
NoEntries == [k \in {} |-> JNull]

\* d[key] = value
Put(d, key, value) == [k \in (DOMAIN d) \cup {key} |-> IF k = key THEN value ELSE d[k]]

\* str(uuid.uuid4()): the n-th identifier generated
Uuid(n) == "thread-" \o IntToStr(n)

\* datetime.utcnow().isoformat(): the n-th timestamp taken
Timestamp(n) == "T" \o IntToStr(n)

\* the context dict built by save_context
Context(src, input_type, label, extracted_data, tid, now) ==
    JObj(<<"source", "type", "intent", "timestamp", "extracted_data", "thread_id">>,
         <<JStr(src), JStr(input_type), JStr(label), JStr(Timestamp(now)),
           extracted_data, JStr(tid)>>)

\* save_context writing to a server it has flushed first
Store_Flushed(agent, tid, context, redis_ok) ==
    IF redis_client[agent] /\ redis_ok
    THEN /\ redis' = Put(NoEntries, tid, Dumps(context, FALSE, 0))
         /\ UNCHANGED fallback_storage
    ELSE /\ fallback_storage' =
                [fallback_storage EXCEPT ![agent] = Put(@, tid, context)]
         /\ UNCHANGED redis

\* the write of save_context: setex on the server, and the fallback map when
\* there is no client or the call fails
Store(agent, tid, context, redis_ok) ==
    IF redis_client[agent] /\ redis_ok
    THEN /\ redis' = Put(redis, tid, Dumps(context, FALSE, 0))
         /\ UNCHANGED fallback_storage
    ELSE /\ fallback_storage' =
                [fallback_storage EXCEPT ![agent] = Put(@, tid, context)]
         /\ UNCHANGED redis

\* SharedMemory.save_context of the agent's instance; the thread_id it
\* returns is Uuid(issued + 1)
save_context(agent, src, input_type, label, extracted_data, redis_ok) ==
    /\ Store(agent, Uuid(issued + 1),
             Context(src, input_type, label, extracted_data, Uuid(issued + 1), clock + 1),
             redis_ok)
    /\ issued' = issued + 1
    /\ clock' = clock + 1
    /\ called' = [op |-> "save_context", agent |-> agent, thread_id |-> Uuid(issued + 1),
                  additional_data |-> extracted_data]
    /\ returned' = JStr(Uuid(issued + 1))
    /\ UNCHANGED <<redis_client, in_flight>>

\* no call of save_context or update_context has been made
NotCalled == [op |-> "", agent |-> "", thread_id |-> "", additional_data |-> JNull]

\* a process that has not called update_context: pc is the position of the
\* call (idle, merge, setex, returned), read is what get_context answered,
\* context is the local dict, calls counts the calls begun
NotRunning ==
    [pc |-> "idle", thread_id |-> "", additional_data |-> JNull, read |-> JNull,
     context |-> JNull, held |-> FALSE, returned |-> JNull, calls |-> 0]

\* no process is inside update_context
NoneInFlight == [a \in Agents |-> NotRunning]

\* update_context(thread_id, additional_data) on the agent's instance
UpdateCall(agent, tid, additional_data) ==
    [op |-> "update_context", agent |-> agent, thread_id |-> tid,
     additional_data |-> additional_data]

MemoryVars ==
    <<redis, redis_client, fallback_storage, issued, clock, called, returned, in_flight>>

(***************************************************************************)
(* SharedMemory.get_context and update_context.  get_ok and set_ok say     *)
(* whether the GET and the SETEX sent to the Redis server go through.      *)
(***************************************************************************)
\* json.loads(context_json) in get_context.  A context puts two containers
\* around the values the agents store; the scaled-down RecursionLimit is
\* counted from those values, as it is for the documents they come from
context_loads(s) == WholeDocument(s, ScanOnce(s, SkipWS(s, 1), -2))

\* get_context: the context found for the thread, and whether it is the dict
\* held by fallback_storage (held) or a copy parsed from the server's text;
\* a GET that fails is answered from fallback_storage
LookupIn(server, storage, has_client, tid, get_ok) ==
    IF has_client /\ get_ok /\ tid \in DOMAIN server
    THEN [found |-> TRUE, held |-> FALSE, context |-> context_loads(server[tid]).val]
    ELSE IF tid \in DOMAIN storage
    THEN [found |-> TRUE, held |-> TRUE, context |-> storage[tid]]
    ELSE [found |-> FALSE, held |-> FALSE, context |-> JNull]

\* get_context on the agent's instance
Lookup(agent, tid, get_ok) ==
    LookupIn(redis, fallback_storage[agent], redis_client[agent], tid, get_ok)

\* get_context(thread_id), None being JNull
get_context(agent, tid, get_ok) == Lookup(agent, tid, get_ok).context

\* dict.update(additional_data), over the first n items of additional_data
RECURSIVE ObjUpdate(_, _, _)
ObjUpdate(o, additional_data, n) ==
    IF n = 0 THEN o
    ELSE ObjPut(ObjUpdate(o, additional_data, n - 1),
                additional_data.keys[n], additional_data.vals[n])

\* context['extracted_data'].update(additional_data); context['timestamp'] = now
Merged(context, additional_data, now) ==
    ObjPut(ObjPut(context, "extracted_data",
                  ObjUpdate(Get(context, "extracted_data"), additional_data,
                            Len(additional_data.keys))),
           "timestamp", JStr(Timestamp(now)))

\* update_context on a server that merges the fields it is sent into the
\* context it holds
WriteBack_FieldMerge(agent, tid, held, merged, set_ok) ==
    /\ redis' = IF redis_client[agent] /\ set_ok
                THEN IF tid \in DOMAIN redis
                     THEN Put(redis, tid,
                              Dumps(ObjPut(ObjPut(context_loads(redis[tid]).val,
                                                  "extracted_data",
                                                  ObjUpdate(Get(context_loads(redis[tid]).val,
                                                                "extracted_data"),
                                                            Get(merged, "extracted_data"),
                                                            Len(Get(merged, "extracted_data").keys))),
                                           "timestamp", Get(merged, "timestamp")),
                                    FALSE, 0))
                     ELSE Put(redis, tid, Dumps(merged, FALSE, 0))
                ELSE redis
    /\ fallback_storage' =
          IF held \/ ~redis_client[agent]
          THEN [fallback_storage EXCEPT ![agent] = Put(@, tid, merged)]
          ELSE fallback_storage

\* the writes of update_context: a dict held by fallback_storage is changed
\* in place before anything is sent; with a client the text goes to the
\* server (a failing SETEX leaves the server as it was), without one the
\* dict is put in fallback_storage
WriteBack(agent, tid, held, merged, set_ok) ==
    /\ redis' = IF redis_client[agent] /\ set_ok
                THEN Put(redis, tid, Dumps(merged, FALSE, 0))
                ELSE redis
    /\ fallback_storage' =
          IF held \/ ~redis_client[agent]
          THEN [fallback_storage EXCEPT ![agent] = Put(@, tid, merged)]
          ELSE fallback_storage

\* update_context creating a context for a thread_id it does not find
Updated_Upsert(agent, tid, found, additional_data, set_ok) ==
    IF found.found
    THEN /\ WriteBack(agent, tid, found.held,
                      Merged(found.context, additional_data, clock + 1), set_ok)
         /\ clock' = clock + 1
         /\ returned' = JBool(~redis_client[agent] \/ set_ok)
    ELSE /\ WriteBack(agent, tid, TRUE,
                      Context("", "", "", additional_data, tid, clock + 1), set_ok)
         /\ clock' = clock + 1
         /\ returned' = JBool(TRUE)

\* update_context once get_context has answered: nothing is touched and
\* False is returned when no context is found; the exception of a failing
\* SETEX is caught and False is returned
Updated(agent, tid, found, additional_data, set_ok) ==
    IF found.found
    THEN /\ WriteBack(agent, tid, found.held,
                      Merged(found.context, additional_data, clock + 1), set_ok)
         /\ clock' = clock + 1
         /\ returned' = JBool(~redis_client[agent] \/ set_ok)
    ELSE /\ returned' = JBool(FALSE)
         /\ UNCHANGED <<redis, fallback_storage, clock>>

\* SharedMemory.update_context of the agent's instance
update_context(agent, tid, additional_data, get_ok, set_ok) ==
    /\ Updated(agent, tid, Lookup(agent, tid, get_ok), additional_data, set_ok)
    /\ called' = UpdateCall(agent, tid, additional_data)
    /\ UNCHANGED in_flight

(***************************************************************************)
(* ClassifierAgent.classify for a str input_data.  The outcome of the      *)
(* body is the record                                                      *)
(*   [input_type, intent, extracted_data, text, result]                    *)
(* where text and result are the locals of the call (result is JNull when  *)
(* the intent classifier was not reached).                                 *)
(***************************************************************************)
\* result.get('confidence', 0.5)
Confidence(r) == GetOr(r, "confidence", JNum(TRUE, 50))

\* str(e) of the exception f"{confidence:.2f}" raises, "" when it formats
FormatError(confidence) ==
    IF confidence.t = "str" THEN "Unknown format code 'f' for object of type 'str'"
    ELSE IF confidence.t = "null"
    THEN "unsupported format string passed to NoneType.__format__"
    ELSE IF confidence.t = "arr" THEN "unsupported format string passed to list.__format__"
    ELSE IF confidence.t = "obj" THEN "unsupported format string passed to dict.__format__"
    ELSE ""

\* the except branch: the format is detected again, the intent is the first
\* of the list and the confidence is 0.1
ErrorPath(data, src, exists, txt, r, message) ==
    [input_type |-> detect_format(data, TRUE, src, exists),
     intent |-> intents[1],
     extracted_data |->
        JObj(<<"raw_text", "classification_confidence", "error">>,
             <<JStr(Prefix(data, 500)), JNum(TRUE, 10), JStr(message)>>),
     text |-> txt,
     result |-> r]

\* the try branch run to its end
Classified(input_type, txt, r) ==
    [input_type |-> input_type,
     intent |-> GetOr(r, "intent", JStr(intents[1])).str,
     extracted_data |->
        JObj(<<"raw_text", "classification_confidence", "classification_reasoning">>,
             <<JStr(Prefix(txt, 1000)), Confidence(r), GetOr(r, "reasoning", JStr(""))>>),
     text |-> txt,
     result |-> r]

AfterIntent(data, src, exists, input_type, txt, r) ==
    IF FormatError(Confidence(r)) # ""
    THEN ErrorPath(data, src, exists, txt, r, FormatError(Confidence(r)))
    ELSE Classified(input_type, txt, r)

AfterExtract(data, src, exists, input_type, txt, reply) ==
    IF txt = ""
    THEN ErrorPath(data, src, exists, txt, JNull, "No text extracted from input")
    ELSE AfterIntent(data, src, exists, input_type, txt, classify_intent(txt, reply))

AfterDetect(data, src, exists, content, decodes, reader, reply, input_type) ==
    AfterExtract(data, src, exists, input_type,
                 extract_text(data, input_type, exists, content, decodes, reader), reply)

\* the body of classify up to the call of save_context
Classification(data, src, exists, content, decodes, reader, reply) ==
    AfterDetect(data, src, exists, content, decodes, reader, reply,
                detect_format(data, TRUE, src, exists))

\* classify returning from its except branch without recording anything
Recorded_ErrorUnrecorded(c, redis_ok) ==
    /\ IF HasKey(c.extracted_data, "error")
       THEN UNCHANGED MemoryVars
       ELSE save_context("classifier", source, c.input_type, c.intent, c.extracted_data,
                         redis_ok)
    /\ fmt' = c.input_type
    /\ intent' = c.intent
    /\ thread_id' = Uuid(issued + 1)
    /\ text' = c.text
    /\ result' = c.result

\* classify records the context and returns (input_type, intent, thread_id)
Recorded(c, redis_ok) ==
    /\ save_context("classifier", source, c.input_type, c.intent, c.extracted_data, redis_ok)
    /\ fmt' = c.input_type
    /\ intent' = c.intent
    /\ thread_id' = Uuid(issued + 1)
    /\ text' = c.text
    /\ result' = c.result

(***************************************************************************)
(* JSONAgent.detect_structure_type: the tag of a loaded JSON value, by its *)
(* top-level keys.                                                         *)
(***************************************************************************)
flat_order_keys == {"id", "customer", "products", "total"}

rfq_keys == {"rfq", "request", "quote"}

\* any(key in data for key in keys)
AnyKey(d, keys) == \E k \in keys : HasKey(d, k)

\* detect_structure_type with the RFQ keys looked at before the flat-order
\* keys
detect_structure_type_RfqFirst(d) ==
    IF d.t = "obj"
    THEN IF HasKey(d, "orderRequest") THEN "nested_order_request"
         ELSE IF HasKey(d, "order") THEN "nested_order"
         ELSE IF AnyKey(d, rfq_keys) THEN "rfq_structure"
         ELSE IF AnyKey(d, flat_order_keys) THEN "flat_order"
         ELSE "custom_structure"
    ELSE IF d.t = "arr" THEN "array_structure"
    ELSE "unknown_structure"

detect_structure_type(d) ==
    IF d.t = "obj"
    THEN IF HasKey(d, "orderRequest") THEN "nested_order_request"
         ELSE IF HasKey(d, "order") THEN "nested_order"
         ELSE IF AnyKey(d, flat_order_keys) THEN "flat_order"
         ELSE IF AnyKey(d, rfq_keys) THEN "rfq_structure"
         ELSE "custom_structure"
    ELSE IF d.t = "arr" THEN "array_structure"
    ELSE "unknown_structure"

(***************************************************************************)
(* EmailAgent.process for a str email_content.  Its except branch is not   *)
(* reached for a str: extract_email_fields and update_context handle their *)
(* own exceptions.                                                         *)
(***************************************************************************)
\* s.find(p, i - 1) for a string p, 1-based, 0 when absent
Find(s, p, i) ==
    IF \E j \in i..(Len(s) - Len(p) + 1) : At(s, j, p)
    THEN CHOOSE j \in i..(Len(s) - Len(p) + 1) :
            At(s, j, p) /\ \A k \in i..(j - 1) : ~At(s, k, p)
    ELSE 0

\* index of the last character of the line that holds index i
LineEnd(s, i) == IF IndexOf(s, "\n", i) = 0 THEN Len(s) ELSE IndexOf(s, "\n", i) - 1

\* first index at or after i that holds no whitespace, Len(s) + 1 when none
SkipSpace(s, i) ==
    IF \E k \in i..Len(s) : Char(s, k) \notin Whitespace
    THEN CHOOSE k \in i..Len(s) :
            Char(s, k) \notin Whitespace /\ \A j \in i..(k - 1) : Char(s, j) \in Whitespace
    ELSE Len(s) + 1

\* group(1).strip() of label\s*([^\n]+) tried right after the label, which
\* ends before index after; e is where the whitespace after the label ends.
\* When only whitespace follows, \s* gives back a character that is not a
\* newline if there is one, and the match fails otherwise.
HeaderValueAt(s, after, e, default) ==
    IF e <= Len(s) THEN Strip(SubSeq(s, e, LineEnd(s, e)))
    ELSE IF \E k \in after..Len(s) : Char(s, k) # "\n" THEN ""
    ELSE default

\* m = re.search(label + r'\s*([^\n]+)', s); m.group(1).strip() if m else default
HeaderValue(s, label, default) ==
    IF Find(s, label, 1) = 0 THEN default
    ELSE HeaderValueAt(s, Find(s, label, 1) + Len(label),
                       SkipSpace(s, Find(s, label, 1) + Len(label)), default)

Urgency(content_lower) ==
    IF AnyKeyword(content_lower, {"urgent", "asap", "immediately", "rush"}) THEN "High"
    ELSE IF AnyKeyword(content_lower, {"soon", "quickly", "priority"}) THEN "Medium"
    ELSE "Low"

\* _fallback_email_extraction(email_content), of the agent and of the service
fallback_email_extraction(email_content) ==
    JObj(<<"sender", "subject", "urgency_level", "key_entities", "sentiment">>,
         <<JStr(HeaderValue(email_content, "From:", "unknown")),
           JStr(HeaderValue(email_content, "Subject:", "No subject")),
           JStr(Urgency(Lower(email_content))), JArr(<<>>), JStr("Neutral")>>)

\* the parsed reply, the regex extraction when the reply holds no JSON or it
\* does not parse
EmailFields(email_content, r) ==
    IF r.st = "ok" THEN r.val ELSE fallback_email_extraction(email_content)

\* LLMService.extract_email_fields(email_content); reply is what
\* _call_gemini does
extract_email_fields(email_content, reply) ==
    IF reply.raises THEN fallback_email_extraction(email_content)
    ELSE EmailFields(email_content, ReplyJson(reply.content))

\* if not extracted_data: extracted_data = self._fallback_email_extraction(...)
ExtractedOrFallback(email_content, extracted_data) ==
    IF Len(extracted_data.keys) = 0 THEN fallback_email_extraction(email_content)
    ELSE extracted_data

crm_data(extracted_data, email_content) ==
    JObj(<<"sender", "subject", "content", "urgency", "sentiment", "key_entities">>,
         <<GetOr(extracted_data, "sender", JStr("unknown")),
           GetOr(extracted_data, "subject", JStr("No subject")),
           JStr(Prefix(email_content, 500)),
           GetOr(extracted_data, "urgency_level", JStr("Medium")),
           GetOr(extracted_data, "sentiment", JStr("Neutral")),
           GetOr(extracted_data, "key_entities", JArr(<<>>))>>)

\* the record EmailAgent.process returns
EmailResult(email_content, reply) ==
    crm_data(ExtractedOrFallback(email_content, extract_email_fields(email_content, reply)),
             email_content)

\* the data EmailAgent.process merges into the context
EmailMerge(email_content, crm) ==
    JObj(<<"email_extracted_data", "email_content_length">>,
         <<crm, JNum(FALSE, 100 * Len(email_content))>>)

\* a call that ends with an exception of the class error_type
Raised(error_type) == [t |-> "raised", error_type |-> error_type]

\* EmailAgent.process(email_content, thread_id).  For an email_content that
\* is None re.search raises TypeError in _fallback_email_extraction, which
\* the except branch calls again outside any try
email_agent_process(email_content, is_str, tid, reply, get_ok, set_ok) ==
    IF is_str
    THEN /\ agent_result' = EmailResult(email_content, reply)
         /\ update_context("email_agent", tid,
                           EmailMerge(email_content, EmailResult(email_content, reply)),
                           get_ok, set_ok)
    ELSE /\ agent_result' = Raised("TypeError")
         /\ UNCHANGED <<redis, fallback_storage, clock, called, returned, in_flight>>

\* the canonical record
Canonical(order_id, customer_name, items, total_amount) ==
    JObj(<<"order_id", "customer_name", "items", "total_amount">>,
         <<order_id, customer_name, items, total_amount>>)

create_empty_result == Canonical(JStr(""), JStr(""), JArr(<<>>), JNum(TRUE, 0))

(***************************************************************************)
(* Python conversions the normalizers apply to loaded values: truth value, *)
(* isinstance, type(), repr(), str(), float() and int().  Numbers are      *)
(* counted in hundredths.  float() and int() of a string are computed for  *)
(* decimal numerals with at most two fraction digits; the inputs drawn     *)
(* hold no exponent, underscore, "inf" or "nan".                           *)
(***************************************************************************)
\* bool(v)
Truthy(v) ==
    CASE v.t = "null" -> FALSE
      [] v.t = "bool" -> v.bool
      [] v.t = "num" -> v.c # 0
      [] v.t = "str" -> v.str # ""
      [] v.t = "arr" -> Len(v.arr) > 0
      [] v.t = "obj" -> Len(v.keys) > 0

\* isinstance(v, (int, float)): bool is a subclass of int
IsNumber(v) == v.t = "num" \/ v.t = "bool"

\* type(v).__name__
TypeName(v) ==
    CASE v.t = "null" -> "NoneType"
      [] v.t = "bool" -> "bool"
      [] v.t = "num" -> IF v.isfloat THEN "float" ELSE "int"
      [] v.t = "str" -> "str"
      [] v.t = "arr" -> "list"
      [] v.t = "obj" -> "dict"

\* f"{cls}" of a class
ClassRepr(name) == "<class '" \o name \o "'>"

\* repr of one character of a str delimited by quote
CharRepr(c, quote) ==
    IF c = "\\" THEN "\\\\"
    ELSE IF c = "\n" THEN "\\n"
    ELSE IF c = "\t" THEN "\\t"
    ELSE IF c = "\r" THEN "\\r"
    ELSE IF c = "\f" THEN "\\x0c"
    ELSE IF c = quote THEN "\\" \o c
    ELSE c

RECURSIVE StrReprBody(_, _, _)
StrReprBody(s, n, quote) ==
    IF n = 0 THEN "" ELSE StrReprBody(s, n - 1, quote) \o CharRepr(Char(s, n), quote)

StrQuote(s) == IF Contains(s, "'") /\ ~Contains(s, "\"") THEN "\"" ELSE "'"

\* repr(s) of a str
StrRepr(s) == StrQuote(s) \o StrReprBody(s, Len(s), StrQuote(s)) \o StrQuote(s)

\* repr(v)
RECURSIVE PyRepr(_)
RECURSIVE ReprElements(_, _)
RECURSIVE ReprMembers(_, _)
ReprElements(elems, n) ==
    IF n = 0 THEN ""
    ELSE ReprElements(elems, n - 1) \o (IF n = 1 THEN "" ELSE ", ") \o PyRepr(elems[n])

ReprMembers(o, n) ==
    IF n = 0 THEN ""
    ELSE ReprMembers(o, n - 1) \o (IF n = 1 THEN "" ELSE ", ")
            \o StrRepr(o.keys[n]) \o ": " \o PyRepr(o.vals[n])

PyRepr(v) ==
    CASE v.t = "str" -> StrRepr(v.str)
      [] v.t = "num" -> NumToStr(v)
      [] v.t = "bool" -> IF v.bool THEN "True" ELSE "False"
      [] v.t = "null" -> "None"
      [] v.t = "arr" -> "[" \o ReprElements(v.arr, Len(v.arr)) \o "]"
      [] v.t = "obj" -> "{" \o ReprMembers(v, Len(v.keys)) \o "}"

\* str(v)
PyStr(v) == IF v.t = "str" THEN v.str ELSE PyRepr(v)

\* outcome of a conversion: the value, or str(e) of the exception
Converted(v) == [raises |-> FALSE, error |-> "", val |-> v]

ConversionError(message) == [raises |-> TRUE, error |-> message, val |-> JNull]

\* a numeral: optional sign, digits, optional point and fraction digits, at
\* least one digit in all
Unsigned(s) == IF s # "" /\ Char(s, 1) \in {"+", "-"} THEN From(s, 2) ELSE s

PointAt(s) == IndexOf(s, ".", 1)

IntegerPart(s) == IF PointAt(s) = 0 THEN s ELSE Prefix(s, PointAt(s) - 1)

FractionPart(s) == IF PointAt(s) = 0 THEN "" ELSE From(s, PointAt(s) + 1)

AllDigits(s) == \A i \in 1..Len(s) : IsDigit(Char(s, i))

IsIntegerNumeral(s) == Unsigned(s) # "" /\ AllDigits(Unsigned(s))

IsFloatNumeral(s) ==
    /\ AllDigits(IntegerPart(Unsigned(s)))
    /\ AllDigits(FractionPart(Unsigned(s)))
    /\ Len(FractionPart(Unsigned(s))) <= 2
    /\ IntegerPart(Unsigned(s)) \o FractionPart(Unsigned(s)) # ""

\* hundredths of an unsigned numeral
Hundredths(whole, fraction) == 100 * IntOf(whole) + FracOf(fraction)

NumeralValue(s) ==
    (IF Char(s, 1) = "-" THEN -1 ELSE 1)
      * Hundredths(IntegerPart(Unsigned(s)), FractionPart(Unsigned(s)))

\* float(v)
PyFloat(v) ==
    CASE v.t = "num" -> Converted(JNum(TRUE, v.c))
      [] v.t = "bool" -> Converted(JNum(TRUE, IF v.bool THEN 100 ELSE 0))
      [] v.t = "str" ->
            IF IsFloatNumeral(Strip(v.str))
            THEN Converted(JNum(TRUE, NumeralValue(Strip(v.str))))
            ELSE ConversionError("could not convert string to float: " \o StrRepr(v.str))
      [] OTHER ->
            ConversionError("float() argument must be a string or a real number, not '"
                              \o TypeName(v) \o "'")

\* int(x) of hundredths: truncation towards zero
Truncated(c) == IF c >= 0 THEN c \div 100 ELSE -((-c) \div 100)

\* int(v), as an integer
PyInt(v) ==
    CASE v.t = "num" -> Converted(Truncated(v.c))
      [] v.t = "bool" -> Converted(IF v.bool THEN 1 ELSE 0)
      [] v.t = "str" ->
            IF IsIntegerNumeral(Strip(v.str))
            THEN Converted(NumeralValue(Strip(v.str)) \div 100)
            ELSE ConversionError("invalid literal for int() with base 10: "
                                   \o StrRepr(v.str))
      [] OTHER ->
            ConversionError("int() argument must be a string, a bytes-like object or a real number, not '"
                              \o TypeName(v) \o "'")

\* str(e) of the AttributeError of v.get(...) for a v that is no dict
NoGet(v) == "'" \o TypeName(v) \o "' object has no attribute 'get'"

(***************************************************************************)
(* The normalizers of JSONAgent.  Each answers with a record and a list of *)
(* anomalies, or raises; str(e) of the exception is kept.                  *)
(***************************************************************************)
NormalizerReturns(reformatted, anomalies) ==
    [raises |-> FALSE, error |-> "", reformatted |-> reformatted, anomalies |-> anomalies]

NormalizerRaises(message) ==
    [raises |-> TRUE, error |-> message, reformatted |-> JNull, anomalies |-> <<>>]

\* except Exception as e: anomalies.append(f"Processing error: {str(e)}");
\* return self.create_empty_result(), anomalies
Degraded(anomalies, message) ==
    NormalizerReturns(create_empty_result,
                      Append(anomalies, JStr("Processing error: " \o message)))

\* anomalies.append(message) when the condition holds
When(condition, message) == IF condition THEN <<JStr(message)>> ELSE <<>>

\* isinstance(value, expected) for the types of required_fields
IsInstance(value, expected) ==
    CASE expected = "str" -> value.t = "str"
      [] expected = "list" -> value.t = "arr"
      [] expected = "number" -> IsNumber(value)

\* f"{expected_type}" of the types of required_fields
ExpectedRepr(expected) ==
    IF expected = "number"
    THEN "one of (" \o ClassRepr("int") \o ", " \o ClassRepr("float") \o ")"
    ELSE ClassRepr(expected)

\* the anomalies of one required field of a flat order
FieldAnomalies(d, key, expected) ==
    IF ~HasKey(d, key) THEN <<JStr("Missing field: " \o key)>>
    ELSE When(~IsInstance(Get(d, key), expected),
              "Invalid type for " \o key \o ": expected " \o ExpectedRepr(expected)
                 \o ", got " \o ClassRepr(TypeName(Get(d, key))))

\* the validation loop over required_fields
FlatAnomalies(d) ==
    FieldAnomalies(d, "id", "str") \o FieldAnomalies(d, "customer", "str")
      \o FieldAnomalies(d, "products", "list") \o FieldAnomalies(d, "total", "number")

FlatOrderWith(d, total) ==
    IF total.raises THEN NormalizerRaises(total.error)
    ELSE NormalizerReturns(Canonical(JStr(PyStr(GetOr(d, "id", JStr("")))),
                                     GetOr(d, "customer", JStr("")),
                                     GetOr(d, "products", JArr(<<>>)),
                                     total.val),
                           FlatAnomalies(d))

process_flat_order(d) == FlatOrderWith(d, PyFloat(GetOr(d, "total", JNum(TRUE, 0))))

\* the record and the anomalies of an RFQ whose fields are in rfq_data
RfqRecord(rfq_data) ==
    JObj(<<"order_id", "customer_name", "items", "total_amount", "rfq_specific">>,
         <<JStr(PyStr(GetOr(rfq_data, "rfq_number", GetOr(rfq_data, "id", JStr(""))))),
           GetOr(rfq_data, "vendor", GetOr(rfq_data, "customer", JStr(""))),
           GetOr(rfq_data, "items", GetOr(rfq_data, "products", JArr(<<>>))),
           JNum(TRUE, 0),
           JObj(<<"deadline", "requirements", "specifications">>,
                <<GetOr(rfq_data, "deadline", JStr("")),
                  GetOr(rfq_data, "requirements", JStr("")),
                  GetOr(rfq_data, "specifications", JObj(<<>>, <<>>))>>)>>)

RfqAnomalies(reformatted) ==
    When(~Truthy(Get(reformatted, "order_id")), "Missing RFQ number or ID")
      \o When(~Truthy(Get(reformatted, "customer_name")),
              "Missing vendor/customer information")

RfqFrom(rfq_data) ==
    IF rfq_data.t # "obj" THEN NormalizerRaises(NoGet(rfq_data))
    ELSE NormalizerReturns(RfqRecord(rfq_data), RfqAnomalies(RfqRecord(rfq_data)))

process_rfq_structure(d) == RfqFrom(GetOr(d, "rfq", d))

\* a or b
Or(a, b) == IF Truthy(a) THEN a ELSE b

\* dict.get(key)
GetOrNone(o, k) == GetOr(o, k, JNull)

\* one turn of the loop of calculate_total_from_items; acc holds the total
\* so far, or the exception raised
PricedItem(acc, unit_price, quantity) ==
    IF ~IsNumber(unit_price) THEN acc
    ELSE IF quantity.raises THEN ConversionError(quantity.error)
    ELSE Converted(acc.val + PyFloat(unit_price).val.c * quantity.val)

TotalStep(acc, item) ==
    IF acc.raises \/ item.t # "obj" THEN acc
    ELSE PricedItem(acc,
                    Or(GetOrNone(item, "unitPrice"),
                       Or(GetOrNone(item, "price"), GetOrNone(item, "unit_price"))),
                    PyInt(GetOr(item, "quantity", JNum(FALSE, 100))))

\* calculate_total_from_items(items), over the first n items, in hundredths
RECURSIVE calculate_total_from_items(_, _)
calculate_total_from_items(items, n) ==
    IF n = 0 THEN Converted(0)
    ELSE TotalStep(calculate_total_from_items(items, n - 1), items[n])

\* customer_name of process_nested_order
OrderCustomer(customer) ==
    IF customer.t = "obj" THEN GetOr(customer, "name", JStr("")) ELSE JStr(PyStr(customer))

\* the items of process_nested_order, [] when they are no list
OrderItems(order) ==
    IF GetOr(order, "items", GetOr(order, "products", JArr(<<>>))).t = "arr"
    THEN GetOr(order, "items", GetOr(order, "products", JArr(<<>>)))
    ELSE JArr(<<>>)

\* the anomalies process_nested_order has appended before the total is
\* computed
OrderAnomalies(order) ==
    When(PyStr(GetOr(order, "id", JStr(""))) = "", "Missing order.id")
      \o When(~Truthy(OrderCustomer(GetOr(order, "customer", JStr("")))),
              "Missing customer information")
      \o When(GetOr(order, "items", GetOr(order, "products", JArr(<<>>))).t # "arr",
              "Items should be a list")

\* total_amount = float(...); if total_amount == 0.0: total_amount =
\* self.calculate_total_from_items(items)
OrderTotal(total, items) ==
    IF total.raises \/ total.val.c # 0 THEN total
    ELSE IF calculate_total_from_items(items.arr, Len(items.arr)).raises
    THEN calculate_total_from_items(items.arr, Len(items.arr))
    ELSE Converted(JNum(TRUE, calculate_total_from_items(items.arr, Len(items.arr)).val))

NestedOrderWith(order, total) ==
    IF total.raises THEN Degraded(OrderAnomalies(order), total.error)
    ELSE NormalizerReturns(Canonical(JStr(PyStr(GetOr(order, "id", JStr("")))),
                                     OrderCustomer(GetOr(order, "customer", JStr(""))),
                                     OrderItems(order), total.val),
                           OrderAnomalies(order))

NestedOrderFrom(order) ==
    IF order.t # "obj" THEN Degraded(<<>>, NoGet(order))
    ELSE NestedOrderWith(order,
                         OrderTotal(PyFloat(GetOr(order, "total",
                                                  GetOr(order, "amount", JNum(TRUE, 0)))),
                                    OrderItems(order)))

process_nested_order(d) == NestedOrderFrom(GetOr(d, "order", JObj(<<>>, <<>>)))

\* customer_name of process_nested_order_request
RequestCustomer(customer) ==
    IF customer.t = "obj" THEN GetOr(customer, "name", JStr(""))
    ELSE IF customer.t = "str" THEN customer
    ELSE JStr("")

RequestCustomerAnomalies(customer) ==
    IF customer.t = "obj"
    THEN When(~Truthy(GetOr(customer, "name", JStr(""))),
              "Missing customer name in orderRequest.customer")
    ELSE When(customer.t # "str", "Invalid customer format in orderRequest")

RequestItemsAnomalies(items) ==
    IF items.t # "arr" THEN <<JStr("orderRequest.items should be a list")>>
    ELSE When(Len(items.arr) = 0, "orderRequest.items is empty")

\* the anomalies process_nested_order_request has appended before its loop
RequestAnomalies(order_request) ==
    When(PyStr(GetOr(order_request, "id", JStr(""))) = "", "Missing orderRequest.id")
      \o RequestCustomerAnomalies(GetOr(order_request, "customer", JObj(<<>>, <<>>)))
      \o RequestItemsAnomalies(GetOr(order_request, "items", JArr(<<>>)))

processed_item(item) ==
    JObj(<<"sku", "description", "quantity", "unitPrice", "preferredSpecs">>,
         <<GetOr(item, "sku", JStr("")), GetOr(item, "description", JStr("")),
           GetOr(item, "quantity", JNum(FALSE, 0)), GetOrNone(item, "unitPrice"),
           GetOr(item, "preferredSpecs", JObj(<<>>, <<>>))>>)

\* the state of the loop over the items: the processed items, the total in
\* hundredths, the anomalies, and the exception that ended it
LoopStart(anomalies) ==
    [raises |-> FALSE, error |-> "", processed_items |-> <<>>, total_amount |-> 0,
     anomalies |-> anomalies]

\* total_amount += float(unit_price) * int(quantity)
RequestPriced(acc, item, unit_price, quantity) ==
    IF ~IsNumber(unit_price)
    THEN [acc EXCEPT !.processed_items = Append(@, processed_item(item))]
    ELSE IF quantity.raises
    THEN [acc EXCEPT !.processed_items = Append(@, processed_item(item)),
                     !.raises = TRUE, !.error = quantity.error]
    ELSE [acc EXCEPT !.processed_items = Append(@, processed_item(item)),
                     !.total_amount = @ + PyFloat(unit_price).val.c * quantity.val]

\* one turn of the loop, for the item of index i
RequestStep(acc, item, i) ==
    IF acc.raises THEN acc
    ELSE IF item.t # "obj"
    THEN [acc EXCEPT !.anomalies =
            Append(@, JStr("Item " \o IntToStr(i) \o " is not a valid object"))]
    ELSE RequestPriced(acc, item, GetOrNone(item, "unitPrice"),
                       PyInt(GetOr(item, "quantity", JNum(FALSE, 0))))

RECURSIVE RequestLoop(_, _, _)
RequestLoop(items, n, anomalies) ==
    IF n = 0 THEN LoopStart(anomalies)
    ELSE RequestStep(RequestLoop(items, n - 1, anomalies), items[n], n - 1)

additional_info(order_request) ==
    JObj(<<"request_type", "date_submitted", "delivery_requirements", "additional_notes">>,
         <<GetOr(order_request, "requestType", JStr("")),
           GetOr(order_request, "dateSubmitted", JStr("")),
           GetOr(order_request, "deliveryRequirements", JObj(<<>>, <<>>)),
           GetOr(order_request, "additionalNotes", JStr(""))>>)

RequestWith(order_request, loop) ==
    IF loop.raises THEN Degraded(loop.anomalies, loop.error)
    ELSE NormalizerReturns(
            ObjPut(Canonical(JStr(PyStr(GetOr(order_request, "id", JStr("")))),
                             RequestCustomer(GetOr(order_request, "customer", JObj(<<>>, <<>>))),
                             JArr(loop.processed_items), JNum(TRUE, loop.total_amount)),
                   "additional_info", additional_info(order_request)),
            loop.anomalies
              \o When(loop.total_amount = 0 /\ Len(loop.processed_items) > 0,
                      "No unit prices available - total amount cannot be calculated"))

\* the items the loop runs over
RequestItems(order_request) ==
    IF GetOr(order_request, "items", JArr(<<>>)).t = "arr"
    THEN GetOr(order_request, "items", JArr(<<>>)).arr
    ELSE <<>>

NestedRequestFrom(order_request) ==
    IF order_request.t # "obj" THEN Degraded(<<>>, NoGet(order_request))
    ELSE RequestWith(order_request,
                     RequestLoop(RequestItems(order_request),
                                 Len(RequestItems(order_request)),
                                 RequestAnomalies(order_request)))

process_nested_order_request(d) ==
    NestedRequestFrom(GetOr(d, "orderRequest", JObj(<<>>, <<>>)))

\* find_field_value(obj, field_names): the first value, depth first, whose
\* key in lower case is a field name; None when there is none
RECURSIVE find_field_value(_, _)
RECURSIVE FindInMembers(_, _, _)
RECURSIVE FindInElements(_, _, _)
FindInMembers(o, i, field_names) ==
    IF i > Len(o.keys) THEN JNull
    ELSE IF Lower(o.keys[i]) \in field_names THEN o.vals[i]
    ELSE IF o.vals[i].t \in {"obj", "arr"} /\ find_field_value(o.vals[i], field_names) # JNull
    THEN find_field_value(o.vals[i], field_names)
    ELSE FindInMembers(o, i + 1, field_names)

FindInElements(elems, i, field_names) ==
    IF i > Len(elems) THEN JNull
    ELSE IF find_field_value(elems[i], field_names) # JNull
    THEN find_field_value(elems[i], field_names)
    ELSE FindInElements(elems, i + 1, field_names)

find_field_value(obj, field_names) ==
    IF obj.t = "obj" THEN FindInMembers(obj, 1, field_names)
    ELSE IF obj.t = "arr" THEN FindInElements(obj.arr, 1, field_names)
    ELSE JNull

CustomId(id_value) == IF Truthy(id_value) THEN JStr(PyStr(id_value)) ELSE JStr("")

CustomCustomer(customer_value) ==
    IF ~Truthy(customer_value) THEN JStr("")
    ELSE IF customer_value.t = "obj"
    THEN GetOr(customer_value, "name", JStr(PyStr(customer_value)))
    ELSE JStr(PyStr(customer_value))

CustomItems(items_value) ==
    IF Truthy(items_value) /\ items_value.t = "arr" THEN items_value ELSE JArr(<<>>)

CustomTotal(total_value) ==
    IF Truthy(total_value) /\ IsNumber(total_value) THEN PyFloat(total_value).val
    ELSE JNum(TRUE, 0)

process_custom_structure(d) ==
    NormalizerReturns(
        ObjPut(Canonical(CustomId(find_field_value(d, {"id", "order_id", "orderid", "number"})),
                         CustomCustomer(find_field_value(d, {"customer", "client", "name",
                                                             "customer_name"})),
                         CustomItems(find_field_value(d, {"items", "products", "orders",
                                                          "line_items"})),
                         CustomTotal(find_field_value(d, {"total", "amount", "total_amount",
                                                          "price"}))),
               "raw_structure", d),
        <<JStr("Unknown JSON structure - using best-effort extraction")>>)

\* the note process_array_structure adds for an array of more than one item
ArrayNoted(o, n) ==
    IF o.raises \/ n <= 1 THEN o
    ELSE NormalizerReturns(ObjPut(o.reformatted, "additional_items_count",
                                  JNum(FALSE, 100 * (n - 1))),
                           Append(o.anomalies,
                                  JStr("Array contains " \o IntToStr(n)
                                         \o " items, processed only the first one")))

\* process_json_structure(data); process_array_structure calls it on the
\* first item
RECURSIVE process_json_structure(_)
process_array_structure(d) ==
    IF Len(d.arr) = 0
    THEN NormalizerReturns(create_empty_result, <<JStr("Empty array provided")>>)
    ELSE ArrayNoted(process_json_structure(d.arr[1]), Len(d.arr))

process_json_structure(d) ==
    CASE detect_structure_type(d) = "nested_order_request" -> process_nested_order_request(d)
      [] detect_structure_type(d) = "nested_order" -> process_nested_order(d)
      [] detect_structure_type(d) = "flat_order" -> process_flat_order(d)
      [] detect_structure_type(d) = "rfq_structure" -> process_rfq_structure(d)
      [] detect_structure_type(d) = "array_structure" -> process_array_structure(d)
      [] OTHER -> process_custom_structure(d)

(***************************************************************************)
(* JSONAgent.process: the loading, the normalization, the merge into the   *)
(* context and the two return statements.                                  *)
(***************************************************************************)
\* json.loads(input_data) for a string that starts with "{", json.load of
\* the file otherwise (nothing is parsed when the file is missing or is not
\* decodable)
JsonLoaded(path, exists, content, decodes) ==
    IF StartsWith(path, "{") THEN json_loads(path)
    ELSE IF exists /\ decodes THEN json_loads(content)
    ELSE Fail(0)

\* the exception the loading raises; str(e) is kept as the name of its class
LoadError(path, exists, decodes, r) ==
    IF r.st = "rec" THEN "RecursionError"
    ELSE IF StartsWith(path, "{") THEN "JSONDecodeError"
    ELSE IF ~exists THEN "FileNotFoundError"
    ELSE IF ~decodes THEN "UnicodeDecodeError"
    ELSE "JSONDecodeError"

error_result(details) ==
    JObj(<<"error", "details", "order_id", "customer_name", "items", "total_amount">>,
         <<JStr("Failed to process JSON"), JStr(details), JStr(""), JStr(""),
           JArr(<<>>), JNum(TRUE, 0)>>)

\* the data merged into the context by the except branch
JsonErrorMerge(path, details) ==
    JObj(<<"json_processing_error", "json_raw_input">>,
         <<JStr(details), JStr(Prefix(path, 1000))>>)

\* the data merged into the context by the try branch
JsonMerge(loaded, reformatted, anomalies) ==
    JObj(<<"json_original_data", "json_reformatted_data", "json_anomalies",
           "json_structure_type">>,
         <<loaded, reformatted, JArr(anomalies), JStr(detect_structure_type(loaded))>>)

\* result = reformatted.copy(); if anomalies: result['anomalies'] = anomalies
WithAnomalies(reformatted, anomalies) ==
    IF anomalies = <<>> THEN reformatted
    ELSE ObjPut(reformatted, "anomalies", JArr(anomalies))

\* reformatted, anomalies = self.process_json_structure(data), reached when
\* the loading has answered with a value
NormalizerAnswer(r) ==
    IF r.st = "ok" THEN process_json_structure(r.val) ELSE NormalizerRaises("")

\* JSONAgent.process(input_data, thread_id) once the loading has answered r
\* (failing with load_error) and the normalizer has answered o
JsonProcessed(path, tid, r, load_error, o, get_ok, set_ok) ==
    IF r.st # "ok"
    THEN /\ json_value' = JNull
         /\ structure_type' = ""
         /\ normalized' = normalized
         /\ agent_result' = error_result(load_error)
         /\ update_context("json_agent", tid, JsonErrorMerge(path, load_error),
                           get_ok, set_ok)
    ELSE /\ json_value' = r.val
         /\ structure_type' = detect_structure_type(r.val)
         /\ normalized' = o
         /\ IF o.raises
            THEN /\ agent_result' = error_result(o.error)
                 /\ update_context("json_agent", tid, JsonErrorMerge(path, o.error),
                                   get_ok, set_ok)
            ELSE /\ agent_result' = WithAnomalies(o.reformatted, o.anomalies)
                 /\ update_context("json_agent", tid,
                                   JsonMerge(r.val, o.reformatted, o.anomalies),
                                   get_ok, set_ok)

\* JSONAgent.process(input_data, thread_id)
json_agent_process(path, tid, exists, content, decodes, get_ok, set_ok) ==
    JsonProcessed(path, tid, JsonLoaded(path, exists, content, decodes),
                  LoadError(path, exists, decodes, JsonLoaded(path, exists, content, decodes)),
                  NormalizerAnswer(JsonLoaded(path, exists, content, decodes)), get_ok, set_ok)

(***************************************************************************)
(* PDFAgent.process for the path of a file.  The text extraction, the      *)
(* lookup of the context, the merge and the three return statements are    *)
(* computed, and so are the fields extracted from the text: reply is what  *)
(* _call_gemini does with the extraction prompt.                           *)
(* pdfplumber and PyPDF2 read the same document and behave alike.          *)
(***************************************************************************)
\* _extract_with_pdfplumber / _extract_with_pypdf2: the stripped text of the
\* pages, "" when the method fails
LibraryText(pdf) ==
    IF pdf.raises THEN "" ELSE Strip(PagesText(pdf.pages, Len(pdf.pages)))

\* ' '.join(re.findall(r'\((.*?)\)', text_content)) from index i on; first
\* says that nothing has been joined yet
RECURSIVE ParenJoin(_, _, _)
ParenJoin(s, i, first) ==
    IF IndexOf(s, "(", i) = 0 \/ IndexOf(s, ")", IndexOf(s, "(", i) + 1) = 0 THEN ""
    ELSE IF IndexOf(s, "\n", IndexOf(s, "(", i) + 1) # 0
              /\ IndexOf(s, "\n", IndexOf(s, "(", i) + 1)
                    < IndexOf(s, ")", IndexOf(s, "(", i) + 1)
    THEN ParenJoin(s, IndexOf(s, "(", i) + 1, first)
    ELSE (IF first THEN "" ELSE " ")
           \o SubSeq(s, IndexOf(s, "(", i) + 1, IndexOf(s, ")", IndexOf(s, "(", i) + 1) - 1)
           \o ParenJoin(s, IndexOf(s, ")", IndexOf(s, "(", i) + 1) + 1, FALSE)

\* Method 3: the text between parentheses of a file that starts with %PDF,
\* when it is longer than 50 characters
RawText(exists, content) ==
    IF exists /\ StartsWith(content, "%PDF") /\ Len(ParenJoin(content, 1, TRUE)) > 50
    THEN ParenJoin(content, 1, TRUE)
    ELSE ""

\* _extract_text_with_fallback(input_data)
extract_text_with_fallback(exists, content, pdf) ==
    IF LibraryText(pdf) # "" THEN Returns(LibraryText(pdf))
    ELSE IF RawText(exists, content) # "" THEN Returns(RawText(exists, content))
    ELSE Raises("ValueError", "All text extraction methods failed")

(***************************************************************************)
(* re.search(pattern, text, re.IGNORECASE) for the patterns of the field   *)
(* extraction: a pattern is a sequence of character classes, each repeated *)
(* between min and max times (max -1: no limit), greedily and with         *)
(* backtracking, and one group that spans the tokens first..last.  The     *)
(* classes hold lower-case characters and are compared with the lower-cased *)
(* character of the text.                                                  *)
(***************************************************************************)
One(cls) == [cls |-> cls, min |-> 1, max |-> 1]

Opt(cls) == [cls |-> cls, min |-> 0, max |-> 1]

Star(cls) == [cls |-> cls, min |-> 0, max |-> -1]

Plus(cls) == [cls |-> cls, min |-> 1, max |-> -1]

Between(cls, least, most) == [cls |-> cls, min |-> least, max |-> most]

\* a word of the pattern, letter by letter
Word(w) == [i \in 1..Len(w) |-> One({LowerChar(Char(w, i))})]

Pattern(before, group, after) ==
    [tokens |-> before \o group \o after,
     first |-> Len(before) + 1,
     last |-> Len(before) + Len(group)]

\* \s
SpaceClass == Whitespace

\* \d
DigitClass == {Char(Digits, i) : i \in 1..Len(Digits)}

\* [A-Z0-9\-] under re.IGNORECASE
IdClass == {Char(LowerChars, i) : i \in 1..Len(LowerChars)} \cup DigitClass \cup {"-"}

NoMatch == [ok |-> FALSE, end |-> 0, first |-> 0, last |-> 0]

\* the number of characters from index i on that are in the class, max at most
Run(s, i, token) ==
    CHOOSE n \in 0..(Len(s) - i + 1) :
        /\ token.max >= 0 => n <= token.max
        /\ \A j \in 0..(n - 1) : LowerChar(Char(s, i + j)) \in token.cls
        /\ \/ n = Len(s) - i + 1
           \/ n = token.max
           \/ LowerChar(Char(s, i + n)) \notin token.cls

RECURSIVE MatchFrom(_, _, _, _)
RECURSIVE Backtrack(_, _, _, _, _)
RECURSIVE Settle(_, _, _, _, _, _)

\* the tokens from the k-th on matched at index i: where the match ends and
\* where the group starts and ends
MatchFrom(s, p, k, i) ==
    IF k > Len(p.tokens) THEN [ok |-> TRUE, end |-> i, first |-> 0, last |-> 0]
    ELSE Backtrack(s, p, k, i, Run(s, i, p.tokens[k]))

\* the k-th token taking n characters, then fewer
Backtrack(s, p, k, i, n) ==
    IF n < p.tokens[k].min THEN NoMatch
    ELSE Settle(s, p, k, i, n, MatchFrom(s, p, k + 1, i + n))

Settle(s, p, k, i, n, rest) ==
    IF rest.ok
    THEN [ok |-> TRUE, end |-> rest.end,
          first |-> IF k = p.first THEN i ELSE rest.first,
          last |-> IF k = p.last THEN i + n ELSE rest.last]
    ELSE Backtrack(s, p, k, i, n - 1)

\* the indexes at which the pattern matches
MatchStarts(p, s) == {i \in 1..(Len(s) + 1) : MatchFrom(s, p, 1, i).ok}

\* re.search(p, s, re.IGNORECASE): the leftmost match
re_search(p, s) ==
    IF MatchStarts(p, s) = {} THEN NoMatch
    ELSE MatchFrom(s, p, 1, CHOOSE i \in MatchStarts(p, s) : \A j \in MatchStarts(p, s) : i <= j)

\* match.group(1)
Group1(s, match) == SubSeq(s, match.first, match.last - 1)

(***************************************************************************)
(* PDFAgent.extract_fields_fallback(text, intent).                         *)
(***************************************************************************)
\* \s*#?\s*[:.]?\s*
NumberSign == <<Star(SpaceClass), Opt({"#"}), Star(SpaceClass), Opt({":", "."}), Star(SpaceClass)>>

\* \s*[:.]?\s*
Colon == <<Star(SpaceClass), Opt({":", "."}), Star(SpaceClass)>>

\* ([A-Z0-9\-]+)
IdGroup == <<Plus(IdClass)>>

\* \s*[:$]?\s*\$?
Currency == <<Star(SpaceClass), Opt({":", "$"}), Star(SpaceClass), Opt({"$"})>>

\* ([\d,]+\.?\d*)
AmountGroup == <<Plus(DigitClass \cup {","}), Opt({"."}), Star(DigitClass)>>

\* (\d{1,2}[/-]\d{1,2}[/-]\d{2,4})
DateGroup ==
    <<Between(DigitClass, 1, 2), One({"/", "-"}), Between(DigitClass, 1, 2), One({"/", "-"}),
      Between(DigitClass, 2, 4)>>

invoice_patterns ==
    <<Pattern(Word("Invoice") \o NumberSign, IdGroup, <<>>),
      Pattern(Word("INV") \o <<Opt({"-", "_"})>>, <<Plus(DigitClass)>>, <<>>),
      Pattern(Word("Invoice") \o <<Plus(SpaceClass)>> \o Word("Number") \o Colon, IdGroup, <<>>)>>

amount_patterns ==
    <<Pattern(Word("Total") \o Currency, AmountGroup, <<>>),
      Pattern(Word("Amount") \o Currency, AmountGroup, <<>>),
      Pattern(<<One({"$"}), Star(SpaceClass)>>, AmountGroup, <<>>),
      Pattern(<<>>, <<Plus(DigitClass), One({"."}), Between(DigitClass, 2, 2)>>,
              <<Star(SpaceClass)>> \o Word("USD"))>>

date_patterns ==
    <<Pattern(Word("Date") \o Colon, DateGroup, <<>>),
      Pattern(<<>>, DateGroup, <<>>),
      Pattern(<<>>,
              <<Between(DigitClass, 4, 4), One({"-"}), Between(DigitClass, 2, 2), One({"-"}),
                Between(DigitClass, 2, 2)>>,
              <<>>)>>

rfq_patterns ==
    <<Pattern(Word("RFQ") \o NumberSign, IdGroup, <<>>),
      Pattern(Word("Request") \o <<Plus(SpaceClass)>> \o Word("for") \o <<Plus(SpaceClass)>>
                \o Word("Quote") \o NumberSign,
              IdGroup, <<>>)>>

deadline_patterns ==
    <<Pattern(Word("Deadline") \o Colon, DateGroup, <<>>),
      Pattern(Word("Due") \o <<Plus(SpaceClass)>> \o Word("Date") \o Colon, DateGroup, <<>>)>>

reference_pattern == Pattern(Word("Reference") \o NumberSign, IdGroup, <<>>)

urgency_indicators == {"urgent", "immediate", "critical", "emergency"}

\* the loop over the patterns taking the last one that matches
FirstMatch_Last(patterns, txt, k) ==
    IF \A j \in k..Len(patterns) : ~re_search(patterns[j], txt).ok THEN JStr("Not Found")
    ELSE JStr(Group1(txt,
                     re_search(patterns[CHOOSE j \in k..Len(patterns) :
                                           /\ re_search(patterns[j], txt).ok
                                           /\ \A m \in (j + 1)..Len(patterns) :
                                                 ~re_search(patterns[m], txt).ok],
                               txt)))

\* for pattern in patterns: ... break, else: "Not Found"; from the k-th
\* pattern on
RECURSIVE FirstMatch(_, _, _)
FirstMatch(patterns, txt, k) ==
    IF k > Len(patterns) THEN JStr("Not Found")
    ELSE IF re_search(patterns[k], txt).ok
    THEN JStr(Group1(txt, re_search(patterns[k], txt)))
    ELSE FirstMatch(patterns, txt, k + 1)

\* s.replace(",", "")
RECURSIVE WithoutCommas(_)
WithoutCommas(s) ==
    IF s = "" THEN ""
    ELSE (IF Char(s, 1) = "," THEN "" ELSE Char(s, 1)) \o WithoutCommas(From(s, 2))

\* float(match.group(1).replace(",", ""))
AmountOf(txt, match) == PyFloat(JStr(WithoutCommas(Group1(txt, match))))

\* the loop over amount_patterns from the k-th on: a match that float()
\* refuses is passed over
RECURSIVE FirstAmount(_, _)
FirstAmount(txt, k) ==
    IF k > Len(amount_patterns) THEN JNum(TRUE, 0)
    ELSE IF re_search(amount_patterns[k], txt).ok
            /\ ~AmountOf(txt, re_search(amount_patterns[k], txt)).raises
    THEN AmountOf(txt, re_search(amount_patterns[k], txt)).val
    ELSE FirstAmount(txt, k + 1)

\* the fields of the intent, before the common fields
IntentFields(txt, label) ==
    IF Lower(label) = "invoice"
    THEN JObj(<<"invoice_number", "amount", "date">>,
              <<FirstMatch(invoice_patterns, txt, 1), FirstAmount(txt, 1),
                FirstMatch(date_patterns, txt, 1)>>)
    ELSE IF Lower(label) = "rfq"
    THEN JObj(<<"rfq_number", "deadline">>,
              <<FirstMatch(rfq_patterns, txt, 1), FirstMatch(deadline_patterns, txt, 1)>>)
    ELSE IF Lower(label) = "complaint"
    THEN JObj(<<"complaint_type", "urgency", "reference_number">>,
              <<JStr("General"),
                JStr(IF AnyKeyword(Lower(txt), urgency_indicators) THEN "High" ELSE "Medium"),
                FirstMatch(<<reference_pattern>>, txt, 1)>>)
    ELSE JObj(<<>>, <<>>)

extract_fields_fallback(txt, label) ==
    ObjPut(ObjPut(IntentFields(txt, label), "text_length", JNum(FALSE, 100 * Len(txt))),
           "extraction_method", JStr("regex_fallback"))

(***************************************************************************)
(* LLMService.extract_pdf_fields(pdf_text, intent) and its regex fallback. *)
(* An outcome is [raises |-> FALSE, val |-> the dict] or [raises |-> TRUE].*)
(***************************************************************************)
\* \w under re.IGNORECASE
WordClass == {Char(LowerChars, i) : i \in 1..Len(LowerChars)} \cup DigitClass \cup {"_"}

\* Invoice\s*#?\s*(\w+)
invoice_match_pattern ==
    Pattern(Word("Invoice") \o <<Star(SpaceClass), Opt({"#"}), Star(SpaceClass)>>,
            <<Plus(WordClass)>>, <<>>)

\* Amount\s*[:$]?\s*([\d,.]+)
amount_match_pattern ==
    Pattern(Word("Amount") \o <<Star(SpaceClass), Opt({":", "$"}), Star(SpaceClass)>>,
            <<Plus(DigitClass \cup {",", "."})>>, <<>>)

\* RFQ\s*#?\s*(\w+)
rfq_match_pattern ==
    Pattern(Word("RFQ") \o <<Star(SpaceClass), Opt({"#"}), Star(SpaceClass)>>,
            <<Plus(WordClass)>>, <<>>)

Extracted(fields) == [raises |-> FALSE, val |-> fields]

ExtractionRaises == [raises |-> TRUE, val |-> JNull]

\* match.group(1) if match else "Unknown"
GroupOrUnknown(p, txt) ==
    IF re_search(p, txt).ok THEN JStr(Group1(txt, re_search(p, txt))) ELSE JStr("Unknown")

\* the invoice fields once the amount is converted; the ValueError of
\* float() leaves _fallback_pdf_extraction
InvoiceFields(txt, amount) ==
    IF amount.raises THEN ExtractionRaises
    ELSE Extracted(JObj(<<"invoice_number", "amount">>,
                        <<GroupOrUnknown(invoice_match_pattern, txt), amount.val>>))

\* LLMService._fallback_pdf_extraction(pdf_text, intent)
fallback_pdf_extraction(pdf_text, label) ==
    IF Lower(label) = "invoice"
    THEN InvoiceFields(pdf_text,
                       IF re_search(amount_match_pattern, pdf_text).ok
                       THEN AmountOf(pdf_text, re_search(amount_match_pattern, pdf_text))
                       ELSE Converted(JNum(TRUE, 0)))
    ELSE IF Lower(label) = "rfq"
    THEN Extracted(JObj(<<"rfq_number">>, <<GroupOrUnknown(rfq_match_pattern, pdf_text)>>))
    ELSE Extracted(JObj(<<>>, <<>>))

\* LLMService.extract_pdf_fields(pdf_text, intent): the JSON object of the
\* reply, the regex extraction when the call fails or the reply holds no
\* JSON that parses
extract_pdf_fields(pdf_text, label, reply) ==
    IF ~reply.raises /\ ReplyJson(reply.content).st = "ok"
    THEN Extracted(ReplyJson(reply.content).val)
    ELSE fallback_pdf_extraction(pdf_text, label)

\* what the LLM service extracted when it is a non-empty dict, the fields of
\* extract_fields_fallback otherwise
ExtractedOrRegex(txt, label, extraction) ==
    IF ~extraction.raises /\ Len(extraction.val.keys) > 0 THEN extraction.val
    ELSE extract_fields_fallback(txt, label)

\* intent = context.get('intent', 'Invoice')
ContextIntent(context) == GetOr(context, "intent", JStr("Invoice")).str

\* extracted_data of PDFAgent.process
PdfExtracted(txt, context, reply) ==
    ExtractedOrRegex(txt, ContextIntent(context),
                     extract_pdf_fields(txt, ContextIntent(context), reply))

\* str(e) of the exception that leaves the try block
PdfError(tid, t, found) ==
    IF t.raises THEN t.error
    ELSE IF Strip(t.text) = "" THEN "No text could be extracted from PDF"
    ELSE "No context found for thread_id: " \o tid

\* the except branch: the fields of the fallback when text can be extracted,
\* the error record otherwise
PdfFallback(t, message) ==
    IF ~t.raises /\ t.text # ""
    THEN ObjPut(ObjPut(extract_fields_fallback(t.text, "Invoice"),
                       "processing_status", JStr("fallback_used")),
                "original_error", JStr(message))
    ELSE JObj(<<"error", "details", "processing_status">>,
              <<JStr("Failed to process PDF"), JStr(message), JStr("failed")>>)

PdfMerge(extracted_data, txt) ==
    JObj(<<"pdf_extracted_data", "pdf_text_length", "pdf_text_preview">>,
         <<extracted_data, JNum(FALSE, 100 * Len(txt)), JStr(Prefix(txt, 500))>>)

\* PDFAgent.process once the text extraction has answered t and get_context
\* has answered found
PdfProcessed(tid, t, found, reply, get_ok, set_ok) ==
    IF ~t.raises /\ Strip(t.text) # "" /\ found.found
    THEN /\ agent_result' = PdfExtracted(t.text, found.context, reply)
         /\ update_context("pdf_agent", tid,
                           PdfMerge(PdfExtracted(t.text, found.context, reply), t.text),
                           get_ok, set_ok)
    ELSE /\ agent_result' = PdfFallback(t, PdfError(tid, t, found))
         /\ UNCHANGED <<redis, fallback_storage, clock, called, returned, in_flight>>

\* PDFAgent.process(input_data, thread_id)
pdf_agent_process(tid, exists, content, pdf, reply, lookup_ok, get_ok, set_ok) ==
    PdfProcessed(tid, extract_text_with_fallback(exists, content, pdf),
                 Lookup("pdf_agent", tid, lookup_ok), reply, get_ok, set_ok)

(***************************************************************************)
(* Format detection on its own: the arguments are drawn from the inputs    *)
(* below and one call of detect_format is made.                            *)
(***************************************************************************)
DetectSources ==
    {"file_upload", "api_call", "json_input", "email_input", "email_processing",
     "test.pdf", "SCAN.PDF", "test.json", "test.eml", "test.txt", "msg.email",
     "upload", "my_api", "webhook", ""}

DetectInputs ==
    {"", "  ", "hello world",
     "test.pdf", "test.json", "samples/a.eml", "notes/x.msg", "temp/file_upload",
     "{\"id\":\"12345\",\"customer\":\"Jane\"}",
     " {\"id\":\"12345\",\"total\":15.5} \n",
     "{\"sender\":\"a@b.c\",\"n\":1}",
     "{\"a\":1}", "[1,2]", "[1,2,3,4,5,6]", "123", "\"hello\"", "{}",
     "[[[[[[1]]]]]]",
     "{From: x", "[From: bob]",
     "From: test@example.com", "Hi\nFrom: bob", "Subject: hello", "a@b",
     "From:me.pdf",
     "JVBERi0xLjQKJVBERi0xLjQK", "JVBERi0x",
     "JVBERj0xLjQKJVBERi0xLjQK",
     "[\"JVBERj0xLjQKJVBERi0x\"]",
     "JVBERi0xLjQK From: a@b.com",
     "From: JVBERi0xLjQKJVBERi0x",
     "QUJDREVGR0hJSktMTU5PUFFS"}

\* the LLM capability is not called
NoReply == [raises |-> TRUE, content |-> ""]

\* state of the intent classifier while it is not in use
IntentIdle == text = "" /\ llm = NoReply /\ result = JNull

IntentVars == <<text, llm, result>>

\* the PDF library is not called
NoReader == [raises |-> TRUE, error |-> "", error_type |-> ""]

\* no file is read
FileIdle == file_content = "" /\ file_decodes = TRUE /\ pdf_library = NoReader

FileVars == <<file_content, file_decodes, pdf_library>>

\* classify has not returned
ClassifyIdle == intent = "" /\ thread_id = ""

ReturnVars == <<intent, thread_id>>

\* the JSON agent has loaded nothing
\* process_json_structure has not been called
NotNormalized == [raises |-> FALSE, error |-> "", reformatted |-> JNull, anomalies |-> <<>>]

JsonIdle == json_value = JNull /\ structure_type = "" /\ normalized = NotNormalized

JsonVars == <<json_value, structure_type, normalized>>

\* no request has been answered
NoResponse == [status |-> 0]

\* process_file has not run
PipelineIdle == agent_result = JNull /\ output_logs = NoEntries /\ response = NoResponse

PipelineVars == <<agent_result, output_logs, response>>

\* the stores right after the agents are constructed without a Redis server
MemoryIdle ==
    /\ redis = NoEntries
    /\ redis_client = [a \in Agents |-> FALSE]
    /\ fallback_storage = [a \in Agents |-> NoEntries]
    /\ issued = 0
    /\ clock = 0
    /\ called = NotCalled
    /\ in_flight = NoneInFlight
    /\ returned = JNull

InitDetect ==
    /\ input_data \in DetectInputs
    /\ inputIsStr \in BOOLEAN
    /\ source \in DetectSources
    /\ isfile \in BOOLEAN
    /\ pc = "detect_format"
    /\ fmt = ""
    /\ IntentIdle
    /\ FileIdle
    /\ ClassifyIdle
    /\ MemoryIdle
    /\ JsonIdle
    /\ PipelineIdle

DetectFormat ==
    /\ pc = "detect_format"
    /\ fmt' = detect_format(input_data, inputIsStr, source, isfile)
    /\ pc' = "done"
    /\ UNCHANGED <<input_data, inputIsStr, source, isfile>>
    /\ UNCHANGED IntentVars
    /\ UNCHANGED FileVars
    /\ UNCHANGED ReturnVars
    /\ UNCHANGED MemoryVars
    /\ UNCHANGED JsonVars
    /\ UNCHANGED PipelineVars

NextDetect == DetectFormat

SpecDetect == InitDetect /\ [][NextDetect]_vars

\* the source hint ends in an extension the detector recognizes
RecognizedExtension(src) ==
    \E ext \in {".pdf", ".json", ".eml", ".txt", ".email"} : EndsWith(Lower(src), ext)

\* the trimmed input starts like a JSON container
LooksLikeJson(data) == StartsLikeJson(Strip(data))

\* the input carries the base64 PDF signature or decodes to the PDF magic
Base64PDF(data) == StartsWith(data, "JVBERi") \/ Base64HeaderIsPDF(data)

ExtensionSignal ==
    \/ RecognizedExtension(source)
    \/ inputIsStr /\ isfile /\ Lower(SplitExt(input_data)) \in {".pdf", ".json", ".eml", ".msg"}

SourceHintSignal ==
    \E hint \in {"email", "json", "api"} : Contains(Lower(source), hint)

ContentSignal ==
    /\ inputIsStr
    /\ \/ LooksLikeJson(input_data)
       \/ json_loads(input_data).st = "ok"
       \/ Base64PDF(input_data)
       \/ \E ind \in email_indicators : Contains(input_data, ind)

NoSignal == ~ExtensionSignal /\ ~SourceHintSignal /\ ~ContentSignal

\* C2 as stated: detect_format returns one of PDF, JSON, Email without
\* raising, and returns Email whenever no extension, content or source-hint
\* signal applies.
C2_DefaultIsEmail ==
    pc = "done" => fmt \in Formats /\ (NoSignal => fmt = "Email")

\* C2 (amended): detect_format returns one of PDF, JSON, Email without
\* raising; when no extension, content or source-hint signal applies it
\* returns Email, except for the source hint "file_upload", whose default
\* is PDF.
C2_DefaultBySource ==
    pc = "done" =>
        /\ fmt \in Formats
        /\ NoSignal => fmt = (IF source = "file_upload" THEN "PDF" ELSE "Email")

C2_Witness ==
    pc = "done" /\ NoSignal /\ inputIsStr /\ Len(Strip(input_data)) > 0
        /\ source = "webhook" /\ fmt = "Email"

\* C3: a source hint that ends in .pdf, .json or .eml decides the format
\* (PDF, JSON, Email), whatever the content of the input is.
C3_ExtensionPrecedence ==
    pc = "done" =>
        /\ EndsWith(source, ".pdf") => fmt = "PDF"
        /\ EndsWith(source, ".json") => fmt = "JSON"
        /\ EndsWith(source, ".eml") => fmt = "Email"

C3_Witness ==
    pc = "done" /\ EndsWith(source, ".pdf") /\ inputIsStr
        /\ json_loads(input_data).st = "ok" /\ fmt = "PDF"

\* C4: well-formed JSON text (a JSON object or array of more than trivial
\* length) is detected as JSON for every source hint that does not end in
\* a recognized extension; source-hint substrings do not override it.
C4_JsonContentWins ==
    pc = "done" /\ inputIsStr /\ ~RecognizedExtension(source)
        /\ LooksLikeJson(input_data) /\ json_loads(input_data).st = "ok"
        /\ ReprLen(json_loads(input_data).val) > 10
    => fmt = "JSON"

\* C5 as stated: text that contains "From:" and cannot be parsed as JSON is
\* detected as Email, for every source hint without a recognized extension.
C5_FromHeaderIsEmail ==
    pc = "done" /\ inputIsStr /\ ~RecognizedExtension(source)
        /\ Contains(input_data, "From:") /\ json_loads(input_data).st # "ok"
    => fmt = "Email"

\* C5 (amended): text that contains "From:", cannot be parsed as JSON, does
\* not start (after trimming) with { or [, is not the path of an existing
\* .pdf or .json file and is not a base64 PDF of more than 20 characters
\* submitted as "file_upload", is detected as Email for every source hint
\* without a recognized extension.
C5_FromHeaderIsEmailUnlessShadowed ==
    pc = "done" /\ inputIsStr /\ ~RecognizedExtension(source)
        /\ Contains(input_data, "From:") /\ json_loads(input_data).st # "ok"
        /\ ~LooksLikeJson(input_data)
        /\ ~(isfile /\ Lower(SplitExt(input_data)) \in {".pdf", ".json"})
        /\ ~(source = "file_upload" /\ Len(input_data) > 20 /\ Base64PDF(input_data))
    => fmt = "Email"

C5_Witness ==
    pc = "done" /\ inputIsStr /\ source = "api_call"
        /\ Contains(input_data, "From:") /\ ~StartsWith(input_data, "From:")
        /\ ~Contains(input_data, "@") /\ fmt = "Email"

\* C6: text that begins with the base64 PDF signature "JVBERi", or that
\* base64-decodes to bytes starting with %PDF, is detected as PDF for every
\* source hint without a recognized extension.
C6_Base64PdfAnySource ==
    pc = "done" /\ inputIsStr /\ ~RecognizedExtension(source) /\ Base64PDF(input_data)
    => fmt = "PDF"

(***************************************************************************)
(* Intent classification on its own: a text and a behaviour of the LLM     *)
(* capability are drawn, then classify_intent or the keyword fallback is   *)
(* called once.                                                            *)
(***************************************************************************)
IntentTexts ==
    {"", "Hello there",
     "I have a complaint about my invoice",
     "Please send a quote for 10 units",
     "URGENT: request for quotation, invoice attached, see policy",
     "Urgent: the payment is due under the new regulation",
     "Invoice #123 amount due $500",
     "New compliance policy",
     "The BILL is WRONG",
     "Total price updated",
     "badge holder", "Lawn care",
     "We want to BUY 5 items, total $20, per company rule"}

\* texts of the first candidate of a reply
ReplyContents ==
    {"{\"intent\":\"RFQ\",\"confidence\":0.9,\"reasoning\":\"asks for prices\"}",
     "Here you go:\n{\"intent\": \"Complaint\", \"confidence\": 0.75}\nDone.",
     "{\"intent\":\"General Inquiry\",\"confidence\":1}",
     "{\"intent\":\"Order\",\"confidence\":0.9}",
     "{\"intent\":\"rfq\",\"confidence\":0.9}",
     "{\"intent\":[\"RFQ\"],\"confidence\":0.9}",
     "{\"intent\":\"Invoice\"}",
     "{\"intent\":\"Regulation\",\"confidence\":\"high\"}",
     "{\"intent\":\"Invoice\",\"confidence\":null}",
     "{\"confidence\":0.8}",
     "I think this is an RFQ", "{intent: RFQ}", "} RFQ {", ""}

Replies == {NoReply} \cup {[raises |-> FALSE, content |-> c] : c \in ReplyContents}

\* state of the format detector while it is not in use
DetectIdle ==
    input_data = "" /\ inputIsStr = TRUE /\ source = "" /\ isfile = FALSE /\ fmt = ""

DetectVars == <<input_data, inputIsStr, source, isfile, fmt>>

InitIntent ==
    /\ text \in IntentTexts
    /\ llm \in Replies
    /\ result = JNull
    /\ pc = "classify_intent"
    /\ DetectIdle
    /\ FileIdle
    /\ ClassifyIdle
    /\ MemoryIdle
    /\ JsonIdle
    /\ PipelineIdle

\* classify_intent(text, intents)
ClassifyIntent ==
    /\ pc = "classify_intent"
    /\ result' = classify_intent(text, llm)
    /\ pc' = "classified"
    /\ UNCHANGED <<text, llm>>
    /\ UNCHANGED DetectVars
    /\ UNCHANGED FileVars
    /\ UNCHANGED ReturnVars
    /\ UNCHANGED MemoryVars
    /\ UNCHANGED JsonVars
    /\ UNCHANGED PipelineVars

\* _fallback_intent_classification(text, intents)
FallbackIntent ==
    /\ pc = "classify_intent"
    /\ result' = fallback_intent_classification(text)
    /\ pc' = "fallback_done"
    /\ UNCHANGED <<text, llm>>
    /\ UNCHANGED DetectVars
    /\ UNCHANGED FileVars
    /\ UNCHANGED ReturnVars
    /\ UNCHANGED MemoryVars
    /\ UNCHANGED JsonVars
    /\ UNCHANGED PipelineVars

NextIntent == ClassifyIntent \/ FallbackIntent

SpecIntent == InitIntent /\ [][NextIntent]_vars

\* C8: the keyword fallback returns the first category, in the order
\* complaint, request (RFQ), billing (Invoice), regulatory (Regulation), one
\* of whose keywords occurs in the lower-cased text, and "General Inquiry"
\* with confidence 0.6 when none does; a request keyword without a complaint
\* keyword gives RFQ even next to billing or regulatory keywords.
C8_KeywordPriority ==
    pc = "fallback_done" =>
        LET tl == Lower(text)
            c == AnyKeyword(tl, complaint_keywords)
            r == AnyKeyword(tl, request_keywords)
            b == AnyKeyword(tl, billing_keywords)
            g == AnyKeyword(tl, regulatory_keywords)
            label == Get(result, "intent").str
        IN  /\ c => label = "Complaint"
            /\ ~c /\ r => label = "RFQ"
            /\ ~c /\ ~r /\ b => label = "Invoice"
            /\ ~c /\ ~r /\ ~b /\ g => label = "Regulation"
            /\ ~c /\ ~r /\ ~b /\ ~g =>
                  label = "General Inquiry" /\ Get(result, "confidence") = JNum(TRUE, 60)

C8_Witness ==
    /\ pc = "fallback_done"
    /\ Contains(Lower(text), "urgent")
    /\ AnyKeyword(Lower(text), request_keywords)
    /\ AnyKeyword(Lower(text), billing_keywords)
    /\ AnyKeyword(Lower(text), regulatory_keywords)
    /\ ~AnyKeyword(Lower(text), complaint_keywords)
    /\ Get(result, "intent").str = "RFQ"

(***************************************************************************)
(* ClassifierAgent.classify on its own: a document, a source hint, the     *)
(* behaviour of the PDF library, of the LLM capability and of Redis are    *)
(* drawn, then classify is called once.                                    *)
(***************************************************************************)
Direct(content) ==
    [input_data |-> content, isfile |-> FALSE, file_content |-> "", file_decodes |-> TRUE]

OnDisk(path, content, decodes) ==
    [input_data |-> path, isfile |-> TRUE, file_content |-> content, file_decodes |-> decodes]

\* direct content, and paths of files with their content (a content that is
\* not valid UTF-8 is written in ASCII and marked as not decodable)
Documents ==
    {Direct("Please send a quote for 10 units"),
     Direct("From: a@b.com\nSubject: Complaint\n\nThe invoice is wrong"),
     Direct("{\"id\":\"12345\",\"customer\":\"Jane\",\"total\":15.5}"),
     Direct(""),
     Direct("hello world"),
     Direct("JVBERi0xLjQKJVBERi0xLjQK"),
     OnDisk("samples/order.json", "{\"rfq\":{\"id\":\"R1\"},\"items\":[\"bolt\"]}", TRUE),
     OnDisk("samples/order.json", "{oops", TRUE),
     OnDisk("samples/mail.eml", "From: a@b.com\nSubject: New compliance policy", TRUE),
     OnDisk("samples/mail.eml", "", TRUE),
     OnDisk("samples/note.txt", "Caf? au lait", FALSE),
     OnDisk("samples/scan.pdf", "%PDF-1.4 ?", FALSE)}

ClassifySources ==
    {"file_upload", "api_call", "email_input", "order.json", "scan.pdf", "mail.eml", "note.txt"}

ReaderOutcomes ==
    {[raises |-> TRUE, error |-> "EOF marker not found", error_type |-> "PdfReadError"],
     [raises |-> FALSE, pages |-> <<>>],
     [raises |-> FALSE, pages |-> <<"">>],
     [raises |-> FALSE, pages |-> <<"Invoice #123\nAmount due: $500">>]}

ClassifyReplies ==
    {NoReply} \cup
    {[raises |-> FALSE, content |-> c] :
        c \in {"{\"intent\":\"RFQ\",\"confidence\":0.9,\"reasoning\":\"asks for prices\"}",
               "Here you go:\n{\"intent\": \"Complaint\", \"confidence\": 1}\nDone.",
               "{\"intent\":\"Order\",\"confidence\":0.9}",
               "{\"intent\":\"rfq\",\"confidence\":0.9}",
               "{\"intent\":\"Regulation\"}",
               "{\"intent\":\"Regulation\",\"confidence\":\"high\"}",
               "{\"intent\":\"Regulation\",\"confidence\":null}",
               "I think this is an RFQ"}}

InitClassify ==
    /\ \E d \in Documents :
          /\ input_data = d.input_data
          /\ isfile = d.isfile
          /\ file_content = d.file_content
          /\ file_decodes = d.file_decodes
    /\ inputIsStr = TRUE
    /\ source \in ClassifySources
    /\ pdf_library \in ReaderOutcomes
    /\ llm \in ClassifyReplies
    /\ redis_client \in {[a \in Agents |-> b] : b \in BOOLEAN}
    /\ redis = NoEntries
    /\ fallback_storage = [a \in Agents |-> NoEntries]
    /\ issued = 0
    /\ clock = 0
    /\ called = NotCalled
    /\ in_flight = NoneInFlight
    /\ returned = JNull
    /\ pc = "classify"
    /\ fmt = ""
    /\ text = ""
    /\ result = JNull
    /\ ClassifyIdle
    /\ JsonIdle
    /\ PipelineIdle

\* classifier.classify(input_data, source)
Classify ==
    /\ pc = "classify"
    /\ \E redis_ok \in BOOLEAN :
          Recorded(Classification(input_data, source, isfile, file_content, file_decodes,
                                  pdf_library, llm),
                   redis_ok)
    /\ pc' = "returned"
    /\ UNCHANGED <<input_data, inputIsStr, source, isfile, llm>>
    /\ UNCHANGED FileVars
    /\ UNCHANGED JsonVars
    /\ UNCHANGED PipelineVars

NextClassify == Classify

SpecClassify == InitClassify /\ [][NextClassify]_vars

\* the label the LLM answered with, JNull when it gave no parseable answer
LlmLabel ==
    IF llm.raises \/ ReplyJson(llm.content).st # "ok" THEN JNull
    ELSE GetOr(ReplyJson(llm.content).val, "intent", JNull)

CandidateLabels == {JStr(i) : i \in IntentSet}

\* every context held by the Redis server or by a fallback map
StoredContexts ==
    {json_loads(redis[t]).val : t \in DOMAIN redis}
      \cup UNION {{fallback_storage[a][t] : t \in DOMAIN fallback_storage[a]} : a \in Agents}

\* the context recorded by the call of classify that has returned
RecordedContext ==
    IF thread_id \in DOMAIN redis THEN json_loads(redis[thread_id]).val
    ELSE fallback_storage["classifier"][thread_id]

\* C7: the intent classify_intent returns, the intent classify returns and
\* the intent of every recorded context are members of the candidate list;
\* when the LLM's answer is not in the list, classify_intent returns the
\* keyword fallback's answer instead of it.
C7_IntentInList ==
    /\ \A c \in StoredContexts : Get(c, "intent") \in CandidateLabels
    /\ pc = "returned" => intent \in IntentSet
    /\ (pc = "returned" /\ result # JNull) =>
          /\ Get(result, "intent") \in CandidateLabels
          /\ LlmLabel \notin CandidateLabels =>
                result = fallback_intent_classification(text)

C7_Witness ==
    /\ pc = "returned"
    /\ LlmLabel = JStr("Order")
    /\ result = fallback_intent_classification(text)
    /\ intent = "RFQ"
    /\ Get(RecordedContext, "intent") = JStr("RFQ")

\* the LLM capability failed or answered off-schema: an error, no parseable
\* answer, a label outside the list, a confidence that is missing or not a
\* number
LlmOffSchema ==
    \/ LlmLabel \notin CandidateLabels
    \/ ~HasKey(ReplyJson(llm.content).val, "confidence")
    \/ Get(ReplyJson(llm.content).val, "confidence").t # "num"

\* C9: when the LLM capability fails or answers off-schema, or the
\* classification fails otherwise (no text extracted), the intent and the
\* confidence classify records and returns are those of the keyword fallback
\* on the extracted text.
C9_FailureUsesFallback ==
    (pc = "returned" /\ (LlmOffSchema \/ text = "")) =>
        /\ JStr(intent) = Get(fallback_intent_classification(text), "intent")
        /\ Get(RecordedContext, "intent") = Get(fallback_intent_classification(text), "intent")
        /\ Get(Get(RecordedContext, "extracted_data"), "classification_confidence")
              = Get(fallback_intent_classification(text), "confidence")

(***************************************************************************)
(* JSONAgent.detect_structure_type on its own: a loaded JSON value is      *)
(* drawn and the function is called once.                                  *)
(***************************************************************************)
\* Largest number of top-level keys of the objects drawn.
MaxKeys == 2

StructureKeys ==
    {"orderRequest", "order", "id", "customer", "products", "total",
     "rfq", "request", "quote", "note", "Order", "items"}

\* sequences of distinct keys
KeySeqs ==
    {ks \in UNION {[1..n -> StructureKeys] : n \in 0..MaxKeys} :
        \A i, j \in 1..Len(ks) : i # j => ks[i] # ks[j]}

\* values of the members: a number, and an object that carries rule keys
\* below the top level
MemberValues ==
    {JNum(FALSE, 100), JObj(<<"orderRequest", "rfq">>, <<JNull, JStr("R1")>>)}

StructureObjects ==
    {JObj(ks, [i \in 1..Len(ks) |-> v]) : ks \in KeySeqs, v \in MemberValues}

StructureArrays ==
    {JArr(<<>>), JArr(<<JNum(FALSE, 100), JNum(FALSE, 200)>>)}
      \cup {JArr(<<o>>) : o \in {x \in StructureObjects : Len(x.keys) <= 1}}

StructureScalars ==
    {JNull, JBool(TRUE), JBool(FALSE), JNum(FALSE, 0), JNum(TRUE, 1550),
     JStr(""), JStr("order"), JStr("orderRequest")}

StructureValues == StructureObjects \cup StructureArrays \cup StructureScalars

InitStructure ==
    /\ json_value \in StructureValues
    /\ structure_type = ""
    /\ normalized = NotNormalized
    /\ pc = "detect_structure_type"
    /\ DetectIdle
    /\ IntentIdle
    /\ FileIdle
    /\ ClassifyIdle
    /\ MemoryIdle
    /\ PipelineIdle

\* self.detect_structure_type(data)
DetectStructureType ==
    /\ pc = "detect_structure_type"
    /\ structure_type' = detect_structure_type(json_value)
    /\ pc' = "done"
    /\ UNCHANGED <<json_value, normalized>>
    /\ UNCHANGED DetectVars
    /\ UNCHANGED IntentVars
    /\ UNCHANGED FileVars
    /\ UNCHANGED ReturnVars
    /\ UNCHANGED MemoryVars
    /\ UNCHANGED PipelineVars

NextStructure == DetectStructureType

SpecStructure == InitStructure /\ [][NextStructure]_vars

\* top-level keys of the loaded value, none when it is not an object
TopKeys ==
    IF json_value.t = "obj" THEN {json_value.keys[i] : i \in 1..Len(json_value.keys)}
    ELSE {}

IsObject == json_value.t = "obj"

IsArray == json_value.t = "arr"

\* the rules of the ladder for objects, each with the rules before it unmet
OrderRequestRule == IsObject /\ "orderRequest" \in TopKeys

OrderRule == IsObject /\ ~OrderRequestRule /\ "order" \in TopKeys

FlatOrderRule ==
    IsObject /\ ~OrderRequestRule /\ ~OrderRule /\ TopKeys \cap flat_order_keys # {}

RfqRule ==
    /\ IsObject /\ ~OrderRequestRule /\ ~OrderRule /\ ~FlatOrderRule
    /\ TopKeys \cap rfq_keys # {}

NoRule == ~OrderRequestRule /\ ~OrderRule /\ ~FlatOrderRule /\ ~RfqRule /\ ~IsArray

\* the part of the ladder that names a rule
LadderRules ==
    /\ structure_type = "nested_order_request" <=> OrderRequestRule
    /\ structure_type = "nested_order" <=> OrderRule
    /\ structure_type = "flat_order" <=> FlatOrderRule
    /\ structure_type = "rfq_structure" <=> RfqRule
    /\ structure_type = "array_structure" <=> IsArray

\* C10 as stated: detect_structure_type returns one of six tags by the
\* first satisfied rule of the ladder, and every value that meets no rule,
\* scalars included, is tagged custom_structure.
C10_SixTagLadder ==
    pc = "done" =>
        /\ structure_type \in {"nested_order_request", "nested_order", "flat_order",
                               "rfq_structure", "array_structure", "custom_structure"}
        /\ LadderRules
        /\ structure_type = "custom_structure" <=> NoRule

\* C10 amended: the ladder holds for objects and arrays, an object that
\* meets no rule is tagged custom_structure, and a value that is neither an
\* object nor an array gets a seventh tag, unknown_structure.
C10_SevenTagLadder ==
    pc = "done" =>
        /\ LadderRules
        /\ structure_type = "custom_structure" <=> (NoRule /\ IsObject)
        /\ structure_type = "unknown_structure" <=> (~IsObject /\ ~IsArray)

C10_Witness ==
    /\ pc = "done"
    /\ json_value = JObj(<<"rfq", "id">>, <<JNum(FALSE, 100), JNum(FALSE, 100)>>)
    /\ structure_type = "flat_order"

(***************************************************************************)
(* process_file(file_path, source), as /process and /process_api call it:  *)
(* the document has been written to file_path.  detect_format returns PDF, *)
(* JSON or Email, so the branch for an unsupported type is not taken.      *)
(* The Redis calls of each step go through or fail one by one.             *)
(***************************************************************************)
\* /process: the upload is saved under samples/ and its name is the source
Upload(filename, content, decodes) ==
    [input_data |-> "samples/" \o filename, source |-> filename,
     file_content |-> content, file_decodes |-> decodes]

\* /process_api: the input is written as text under temp/
ApiInput(src, content) ==
    [input_data |-> "temp/" \o src, source |-> src,
     file_content |-> content, file_decodes |-> TRUE]

\* documents with their content (a content that is not valid UTF-8 is
\* written in ASCII and marked as not decodable)
Submissions ==
    {Upload("order.json", "{\"id\":\"12345\",\"customer\":\"Jane\",\"total\":15.5}", TRUE),
     Upload("order.json", "{oops", TRUE),
     Upload("data.json", "42", TRUE),
     Upload("mail.eml", "From: a@b.com\nSubject: Urgent complaint\n\nThe invoice is wrong", TRUE),
     Upload("note.txt", "Caf? au lait", FALSE),
     Upload("note.txt", "Cafe au lait", TRUE),
     Upload("scan.pdf", "%PDF-1.4 ?", FALSE),
     Upload("report.pdf",
            "%PDF-1.4\n(Invoice #123) Tj\n(Amount due: $500 payable within 30 days of receipt) Tj",
            TRUE),
     ApiInput("api_call", "{\"rfq\":{\"id\":\"R1\"},\"items\":[\"bolt\"]}"),
     ApiInput("email_input", "Please send a quote for 10 units")}

PipelineReaders ==
    {[raises |-> TRUE, error |-> "EOF marker not found", error_type |-> "PdfReadError"],
     [raises |-> FALSE, pages |-> <<"Invoice #123\nAmount due: $500">>]}

\* what the LLM capability does with the classification prompt
PipelineReplies ==
    {NoReply,
     [raises |-> FALSE,
      content |-> "{\"intent\":\"Complaint\",\"confidence\":0.9,\"reasoning\":\"angry\"}"]}

\* what the LLM capability does with the extraction prompt of the PDF
PdfReplies ==
    {NoReply,
     [raises |-> FALSE,
      content |-> "{\"invoice_number\":\"123\",\"amount\":500.0,\"vendor\":\"Acme\"}"],
     [raises |-> FALSE, content |-> "{}"]}

\* what the LLM capability does with the extraction prompt of the email
EmailReplies ==
    {NoReply,
     [raises |-> FALSE, content |-> "{}"],
     [raises |-> FALSE,
      content |-> "{\"sender\":\"a@b.com\",\"urgency_level\":\"High\",\"key_entities\":[\"invoice\"]}"]}

InitPipeline ==
    /\ \E d \in Submissions :
          /\ input_data = d.input_data
          /\ source = d.source
          /\ file_content = d.file_content
          /\ file_decodes = d.file_decodes
    /\ isfile = TRUE
    /\ inputIsStr = TRUE
    /\ pdf_library \in PipelineReaders
    /\ llm \in PipelineReplies
    /\ redis_client \in {[a \in Agents |-> b] : b \in BOOLEAN}
    /\ redis = NoEntries
    /\ fallback_storage = [a \in Agents |-> NoEntries]
    /\ issued = 0
    /\ clock = 0
    /\ called = NotCalled
    /\ in_flight = NoneInFlight
    /\ returned = JNull
    /\ pc = "process_file"
    /\ fmt = ""
    /\ text = ""
    /\ result = JNull
    /\ ClassifyIdle
    /\ JsonIdle
    /\ PipelineIdle

\* input_type, intent, thread_id = classifier.classify(file_path, source)
ProcessClassify ==
    /\ pc = "process_file"
    /\ \E redis_ok \in BOOLEAN :
          Recorded(Classification(input_data, source, isfile, file_content, file_decodes,
                                  pdf_library, llm),
                   redis_ok)
    /\ pc' = "route"
    /\ UNCHANGED <<input_data, inputIsStr, source, isfile, llm>>
    /\ UNCHANGED FileVars
    /\ UNCHANGED JsonVars
    /\ UNCHANGED PipelineVars

\* what a step of process_file leaves alone
RoutingVars ==
    <<input_data, inputIsStr, source, isfile, fmt, text, llm, result,
      file_content, file_decodes, pdf_library, intent, thread_id,
      redis_client, issued, output_logs>>

\* result = json_agent.process(file_path, thread_id)
RouteJSON ==
    /\ pc = "route"
    /\ fmt = "JSON"
    /\ \E get_ok \in BOOLEAN, set_ok \in BOOLEAN :
          json_agent_process(input_data, thread_id, isfile, file_content, file_decodes,
                             get_ok, set_ok)
    /\ pc' = "log"
    /\ UNCHANGED response
    /\ UNCHANGED RoutingVars

\* except Exception as e: raise HTTPException(status_code=500, ...); the
\* detail is "Processing failed: " + str(e), kept as the class of e
Failed(error_type) == [status |-> 500, error_type |-> error_type]

\* with open(file_path, 'r', encoding='utf-8') as f: content = f.read()
\* result = email_agent.process(content, thread_id)
RouteEmail ==
    /\ pc = "route"
    /\ fmt = "Email"
    /\ IF isfile /\ file_decodes
       THEN /\ \E reply \in EmailReplies, get_ok \in BOOLEAN, set_ok \in BOOLEAN :
                  email_agent_process(file_content, TRUE, thread_id, reply, get_ok, set_ok)
            /\ pc' = "log"
            /\ UNCHANGED response
       ELSE /\ response' = Failed(IF isfile THEN "UnicodeDecodeError" ELSE "FileNotFoundError")
            /\ pc' = "done"
            /\ UNCHANGED <<agent_result, redis, fallback_storage, clock, called, returned,
                           in_flight>>
    /\ UNCHANGED JsonVars
    /\ UNCHANGED RoutingVars

\* result = pdf_agent.process(file_path, thread_id)
RoutePDF ==
    /\ pc = "route"
    /\ fmt = "PDF"
    /\ \E reply \in PdfReplies, lookup_ok \in BOOLEAN,
          get_ok \in BOOLEAN, set_ok \in BOOLEAN :
          pdf_agent_process(thread_id, isfile, file_content, pdf_library,
                            reply, lookup_ok, get_ok, set_ok)
    /\ pc' = "log"
    /\ UNCHANGED response
    /\ UNCHANGED JsonVars
    /\ UNCHANGED RoutingVars

result_log(now) ==
    JObj(<<"thread_id", "type", "intent", "result", "source", "timestamp">>,
         <<JStr(thread_id), JStr(fmt), JStr(intent), agent_result, JStr(source),
           JStr(Timestamp(now))>>)

\* json.dump(result_log, f, indent=2); return JSONResponse(content=result_log)
LogResult ==
    /\ pc = "log"
    /\ output_logs' = Put(output_logs, thread_id, Dumps(result_log(clock + 1), TRUE, 0))
    /\ response' = [status |-> 200, content |-> result_log(clock + 1)]
    /\ clock' = clock + 1
    /\ pc' = "done"
    /\ UNCHANGED <<input_data, inputIsStr, source, isfile, fmt, text, llm, result,
                   file_content, file_decodes, pdf_library, intent, thread_id,
                   redis_client, issued>>
    /\ UNCHANGED <<redis, fallback_storage, called, returned, agent_result, in_flight>>
    /\ UNCHANGED JsonVars

NextPipeline == ProcessClassify \/ RouteJSON \/ RouteEmail \/ RoutePDF \/ LogResult

SpecPipeline == InitPipeline /\ [][NextPipeline]_vars

\* the thread_id has a context in the Redis server or in a fallback map
ThreadRecorded ==
    \/ thread_id \in DOMAIN redis
    \/ \E a \in Agents : thread_id \in DOMAIN fallback_storage[a]

\* C1: every run of process_file ends with a response that carries a result
\* object and the thread_id of a recorded context, never with an error
\* response.
C1_AlwaysResult ==
    pc = "done" =>
        /\ response.status = 200
        /\ Get(response.content, "result").t = "obj"
        /\ Get(response.content, "thread_id") = JStr(thread_id)
        /\ ThreadRecorded

(***************************************************************************)
(* JSONAgent.process on its own: a JSON document is handed over as a       *)
(* direct string or as the path of a file, with a thread_id whose context  *)
(* the classifier has recorded or that is unknown, and process is called   *)
(* once.                                                                   *)
(***************************************************************************)
\* a member that is left out of an object
Absent == [t |-> "absent"]

WithMember(o, k, v) == IF v = Absent THEN o ELSE ObjPut(o, k, v)

\* flat orders: each of the four fields is missing, well typed or mistyped
FlatOrders ==
    {WithMember(WithMember(WithMember(WithMember(JObj(<<>>, <<>>), "id", i),
                                      "customer", c), "products", p), "total", t) :
        i \in {Absent, JStr("12345"), JNum(FALSE, 700)},
        c \in {Absent, JStr("Jane Smith"), JObj(<<"name">>, <<JStr("Jane")>>)},
        p \in {Absent, JArr(<<JStr("Product X"), JStr("Product Y")>>), JStr("Product X")},
        t \in {Absent, JNum(TRUE, 150050), JNum(FALSE, 1500), JStr("abc"), JNull,
               JStr("15.5")}}

\* documents of the other shapes
ShapedTexts ==
    {"{\"orderRequest\":{\"id\":\"\",\"customer\":{\"name\":\"\"},\"items\":[]}}",
     "{\"orderRequest\":{\"id\":\"OR-1\",\"customer\":{\"name\":\"Acme\"},\"requestType\":\"RFQ\",\"items\":[{\"sku\":\"A1\",\"quantity\":2,\"unitPrice\":2.5},{\"sku\":\"B2\",\"quantity\":1}]}}",
     "{\"orderRequest\":{\"id\":7,\"customer\":\"Acme\",\"items\":[{\"sku\":\"A1\",\"quantity\":3}]}}",
     "{\"orderRequest\":{\"customer\":5,\"items\":\"bolt\"}}",
     "{\"orderRequest\":{\"id\":\"OR-2\",\"customer\":{\"name\":7},\"items\":[\"bolt\",{\"unitPrice\":1.5,\"quantity\":\"two\"},5]}}",
     "{\"orderRequest\":{\"id\":\"OR-3\",\"items\":[{\"unitPrice\":true,\"quantity\":2.9},{\"unitPrice\":4,\"quantity\":null}]}}",
     "{\"orderRequest\":\"OR-4\"}",
     "{\"orderRequest\":null,\"order\":{\"id\":\"O-0\"}}",
     "{\"orderRequest\":[1,2]}",
     "{\"order\":{\"id\":\"O-1\",\"customer\":\"Bob\",\"items\":[{\"price\":2.5,\"quantity\":2}],\"total\":12.5}}",
     "{\"order\":{\"id\":\"O-2\",\"customer\":{\"name\":\"Bob\"},\"products\":[{\"unit_price\":3,\"quantity\":2},{\"unitPrice\":0,\"price\":1.25},\"x\"]}}",
     "{\"order\":{\"customer\":{},\"items\":\"bolt\",\"amount\":\"7.5\"}}",
     "{\"order\":{\"id\":\"O-3\",\"customer\":null,\"total\":\"abc\"}}",
     "{\"order\":{\"total\":null}}",
     "{\"order\":{\"id\":\"O-4\",\"customer\":\"Bob\",\"items\":[{\"price\":2,\"quantity\":\"many\"}]}}",
     "{\"order\":{\"id\":\"O-5\",\"customer\":[\"Bob\"],\"total\":[1]}}",
     "{\"order\":\"O-6\"}",
     "{\"order\":null,\"id\":\"1\"}",
     "{\"order\":5}",
     "{\"order\":{}}",
     "{\"orderRequest\":{\"id\":\"OR-5\",\"customer\":\"Acme\",\"items\":[{\"quantity\":2,\"unitPrice\":2.5},{\"quantity\":\"two\",\"unitPrice\":1.5}]}}",
     "{\"orderRequest\":{\"id\":\"OR-6\",\"customer\":\"\",\"items\":[\"bolt\"]}}",
     "{\"order\":{\"id\":\"O-8\",\"customer\":\"Bob\",\"items\":[{\"price\":2,\"quantity\":2.5}]}}",
     "{\"order\":{\"id\":\"O-9\",\"customer\":\"Bob\",\"items\":[{\"sku\":\"A1\",\"quantity\":3}]}}",
     "{\"order\":{\"id\":\"O-10\",\"customer\":\"Bob\",\"items\":[{\"price\":2.5,\"quantity\":2}],\"total\":0}}",
     "{\"order\":{\"id\":\"O-11\",\"customer\":\"Bob\",\"items\":[{\"price\":1,\"quantity\":1}],\"products\":[{\"price\":9,\"quantity\":1}],\"total\":3,\"amount\":4}}",
     "{\"order\":{\"id\":\"O-12\",\"customer\":\"Bob\",\"products\":[\"x\"],\"amount\":4}}",
     "{\"rfq\":{\"rfq_number\":\"R1\",\"vendor\":\"Acme\",\"items\":[\"bolt\"],\"deadline\":\"12/31/2023\"}}",
     "{\"rfq\":{\"id\":5,\"customer\":{\"name\":\"Acme\"},\"products\":\"bolt\"}}",
     "{\"rfq\":{}}",
     "{\"rfq\":\"R1\"}",
     "{\"rfq\":null}",
     "{\"rfq\":[\"R1\"]}",
     "{\"rfq\":12}",
     "{\"request\":\"quote please\",\"vendor\":\"Acme\",\"rfq_number\":17}",
     "{\"quote\":true}",
     "{}",
     "{\"note\":\"hello\"}",
     "{\"data\":{\"Order_ID\":5,\"client\":{\"name\":\"Bob\"},\"line_items\":[\"a\"],\"price\":9.99}}",
     "{\"meta\":{\"number\":null},\"body\":[{\"ID\":\"X9\"},{\"name\":{\"first\":\"Al\"}}],\"Amount\":\"12\",\"orders\":{}}",
     "{\"a\":[{\"b\":{\"total_amount\":true,\"Products\":\"none\"}}],\"CLIENT\":0,\"Name\":\"N\"}",
     "[]",
     "[{\"id\":\"1\",\"customer\":\"A\",\"products\":[],\"total\":1}]",
     "[{\"id\":\"1\",\"total\":\"x\"},{\"id\":\"2\"}]",
     "[{\"rfq\":\"R1\"},2,3]",
     "[{\"order\":{\"id\":\"O-7\",\"customer\":\"Bob\",\"total\":3}},{\"order\":{}}]",
     "[[{\"note\":1},{\"note\":2}],5,6]",
     "[42]",
     "[[],[]]",
     "42",
     "15.5",
     "\"order\"",
     "null",
     "true"}

JsonTexts == ShapedTexts \cup {Dumps(o, FALSE, 0) : o \in FlatOrders}

\* the thread_id handed to process
JsonThread == Uuid(1)

\* the context the classifier has recorded for the document
ClassifierContext ==
    Context("samples/sample_rfq.json", "JSON", "RFQ",
            JObj(<<"raw_text">>, <<JStr("Sample RFQ data")>>), JsonThread, 1)

InitJson ==
    /\ \E content \in JsonTexts :
          /\ \/ /\ input_data = "samples/order.json"
                /\ isfile = TRUE
                /\ file_content = content
             \/ /\ StartsWith(content, "{")
                /\ input_data = content
                /\ isfile = FALSE
                /\ file_content = ""
          /\ redis \in {NoEntries,
                        Put(NoEntries, JsonThread, Dumps(ClassifierContext, FALSE, 0))}
    /\ inputIsStr = TRUE
    /\ source = "order.json"
    /\ file_decodes = TRUE
    /\ pdf_library = NoReader
    /\ llm = NoReply
    /\ pc = "process"
    /\ fmt = "JSON"
    /\ text = ""
    /\ result = JNull
    /\ intent = "RFQ"
    /\ thread_id = JsonThread
    /\ redis_client = [a \in Agents |-> TRUE]
    /\ fallback_storage = [a \in Agents |-> NoEntries]
    /\ issued = IF redis = NoEntries THEN 0 ELSE 1
    /\ clock = IF redis = NoEntries THEN 0 ELSE 1
    /\ called = NotCalled
    /\ in_flight = NoneInFlight
    /\ returned = JNull
    /\ JsonIdle
    /\ PipelineIdle

\* json_agent.process(input_data, thread_id)
JsonProcess ==
    /\ pc = "process"
    /\ \E get_ok \in BOOLEAN, set_ok \in BOOLEAN :
          json_agent_process(input_data, thread_id, isfile, file_content, file_decodes,
                             get_ok, set_ok)
    /\ pc' = "done"
    /\ UNCHANGED response
    /\ UNCHANGED RoutingVars

NextJson == JsonProcess

SpecJson == InitJson /\ [][NextJson]_vars

\* process has loaded the document and called process_json_structure
Normalizing == pc = "done" /\ structure_type # ""

\* the four keys of the canonical record
CanonicalKeys == {"order_id", "customer_name", "items", "total_amount"}

HasCanonicalKeys(record) == record.t = "obj" /\ \A k \in CanonicalKeys : HasKey(record, k)

\* C11: for every loaded JSON value, wrong-typed fields and non-object
\* wrappers included, process_json_structure does not raise: it answers with
\* a canonical record and a list of anomalies.
C11_NormalizationNeverRaises ==
    Normalizing =>
        /\ ~normalized.raises
        /\ HasCanonicalKeys(normalized.reformatted)

\* a flat order whose four fields are present and well typed
WellTypedFlatOrder(d) ==
    /\ d.t = "obj"
    /\ detect_structure_type(d) = "flat_order"
    /\ \A k \in flat_order_keys : HasKey(d, k)
    /\ Get(d, "id").t = "str"
    /\ Get(d, "customer").t = "str"
    /\ Get(d, "products").t = "arr"
    /\ Get(d, "total").t = "num"

\* the record maps the four fields of the order d
MapsFlatOrder(record, d) ==
    /\ Get(record, "order_id") = Get(d, "id")
    /\ Get(record, "customer_name") = Get(d, "customer")
    /\ Get(record, "items") = Get(d, "products")
    /\ Get(record, "total_amount").t = "num"
    /\ Get(record, "total_amount").c = Get(d, "total").c

\* the pair reformatted, anomalies as a caller unpacks it
HandedBack(reformatted, anomalies) == JArr(<<reformatted, JArr(anomalies)>>)

\* C12: a flat order with its four fields present and well typed is
\* normalized to order_id = id, customer_name = customer, items = products,
\* total_amount = total with no anomaly, and process returns that record
\* together with its empty list of anomalies.
C12_FlatOrderRoundTrip ==
    (Normalizing /\ WellTypedFlatOrder(json_value)) =>
        /\ ~normalized.raises
        /\ MapsFlatOrder(normalized.reformatted, json_value)
        /\ normalized.anomalies = <<>>
        /\ agent_result = HandedBack(normalized.reformatted, normalized.anomalies)

\* a non-empty array of strings
StringList(v) ==
    v.t = "arr" /\ Len(v.arr) > 0 /\ \A i \in 1..Len(v.arr) : v.arr[i].t = "str"

\* C13: every result process returns, after a success or a failure and for
\* every shape, carries order_id (a string), customer_name (a string), items
\* (an array) and total_amount (a number); anomalies, when present, is a
\* non-empty array of strings.
C13_ResultShape ==
    pc = "done" =>
        /\ HasCanonicalKeys(agent_result)
        /\ Get(agent_result, "order_id").t = "str"
        /\ Get(agent_result, "customer_name").t = "str"
        /\ Get(agent_result, "items").t = "arr"
        /\ Get(agent_result, "total_amount").t = "num"
        /\ HasKey(agent_result, "anomalies") => StringList(Get(agent_result, "anomalies"))

\* the fields a flat order requires
required_fields == <<"id", "customer", "products", "total">>

\* the JSON type each required field is expected to have
ExpectedType(key) ==
    CASE key = "id" -> "str" [] key = "customer" -> "str"
      [] key = "products" -> "arr" [] key = "total" -> "num"

\* the field is missing from the order or not of its expected type
FieldFails(d, key) == ~HasKey(d, key) \/ Get(d, key).t # ExpectedType(key)

\* the anomaly is about the field
Mentions(anomaly, key) ==
    \/ anomaly.str = "Missing field: " \o key
    \/ StartsWith(anomaly.str, "Invalid type for " \o key \o ":")

\* the anomalies of the list that are about the field
EntriesFor(anomalies, key) == {k \in 1..Len(anomalies) : Mentions(anomalies[k], key)}

\* the fields of the order that fail
FailingFields(d) == {i \in 1..Len(required_fields) : FieldFails(d, required_fields[i])}

\* one entry for each failing field, and no other entry
OnePerFailingField(anomalies, d) ==
    /\ Len(anomalies) = Cardinality(FailingFields(d))
    /\ \A i \in 1..Len(required_fields) :
          Cardinality(EntriesFor(anomalies, required_fields[i]))
             = IF FieldFails(d, required_fields[i]) THEN 1 ELSE 0

\* C21: for every flat order the anomaly list holds exactly one entry for
\* each of id, customer, products, total that is missing or not of its
\* expected type (string, string, list, number) and no other entry, all four
\* fields being checked, and a record is still returned.
C21_OneAnomalyPerField ==
    (Normalizing /\ structure_type = "flat_order") =>
        /\ ~normalized.raises
        /\ HasCanonicalKeys(normalized.reformatted)
        /\ OnePerFailingField(normalized.anomalies, json_value)

\* the object under orderRequest or order, an empty object when the key
\* holds something else
Wrapped(d, key) ==
    IF GetOr(d, key, JNull).t = "obj" THEN Get(d, key) ELSE JObj(<<>>, <<>>)

\* the items of the input: the list under items or else under products,
\* no item when neither holds a list
InputItems(wrapper) ==
    IF GetOr(wrapper, "items", GetOr(wrapper, "products", JNull)).t = "arr"
    THEN GetOr(wrapper, "items", GetOr(wrapper, "products", JNull)).arr
    ELSE <<>>

\* the unit price the item carries
UnitPriceOf(item) ==
    Or(GetOrNone(item, "unitPrice"), Or(GetOrNone(item, "price"), GetOrNone(item, "unit_price")))

\* the item carries a quantity and a unit price and both are numbers
CarriesPricing(item) ==
    /\ item.t = "obj"
    /\ GetOrNone(item, "quantity").t = "num"
    /\ UnitPriceOf(item).t = "num"

\* the sum of quantity x unit price over the first n items that carry both,
\* both counted in hundredths
RECURSIVE PricedSum(_, _)
PricedSum(items, n) ==
    IF n = 0 THEN 0
    ELSE PricedSum(items, n - 1)
           + (IF CarriesPricing(items[n])
              THEN Get(items[n], "quantity").c * UnitPriceOf(items[n]).c
              ELSE 0)

\* the total the input states
InputTotal(wrapper) == GetOr(wrapper, "total", GetOrNone(wrapper, "amount"))

\* total_amount is the stated total or the sum over the priced items
VerbatimOrSummed(total_amount, wrapper) ==
    /\ total_amount.t = "num"
    /\ \/ /\ InputTotal(wrapper).t \in {"num", "str"}
          /\ ~PyFloat(InputTotal(wrapper)).raises
          /\ total_amount.c = PyFloat(InputTotal(wrapper)).val.c
       \/ 100 * total_amount.c
             = PricedSum(InputItems(wrapper), Len(InputItems(wrapper)))

\* the object a nested document wraps
NestedWrapper(d, type) ==
    Wrapped(d, IF type = "nested_order_request" THEN "orderRequest" ELSE "order")

NestedShapes == {"nested_order_request", "nested_order"}

\* C22: for nested order requests and nested orders total_amount is the
\* input's total taken verbatim or the sum of quantity x unit price over
\* exactly the items whose quantity and unit price are both present and both
\* numbers; an item lacking either, or carrying a non-number, adds nothing.
C22_TotalVerbatimOrSummed ==
    (Normalizing /\ structure_type \in NestedShapes) =>
        /\ ~normalized.raises
        /\ VerbatimOrSummed(Get(normalized.reformatted, "total_amount"),
                            NestedWrapper(json_value, structure_type))

\* the item carries a unit price
HasPrice(item) == item.t = "obj" /\ UnitPriceOf(item).t = "num"

\* no item of the list carries a unit price
Unpriced(items) == \A k \in 1..Len(items) : ~HasPrice(items[k])

\* an anomaly says that the total cannot be calculated
CannotBeCalculated(anomalies) ==
    \E k \in 1..Len(anomalies) : Contains(anomalies[k].str, "cannot be calculated")

\* the zero total of a non-empty list without pricing is flagged, the zero
\* total of an empty list is not; wrapper states no total of its own
ZeroTotalFlagged(o, items) ==
    /\ (Len(items) > 0 /\ Unpriced(items) /\ Get(o.reformatted, "total_amount").c = 0)
          => CannotBeCalculated(o.anomalies)
    /\ Len(items) = 0
          => (Get(o.reformatted, "total_amount").c = 0 /\ ~CannotBeCalculated(o.anomalies))

\* C23: a normalized record whose total_amount of zero was computed from a
\* non-empty item list in which no item carries pricing has an anomaly
\* saying that the total cannot be calculated; for an empty item list the
\* total is 0.0 and there is no such anomaly.
C23_ZeroTotalIsFlagged ==
    (/\ Normalizing
     /\ structure_type \in NestedShapes
     /\ ~normalized.raises
     /\ InputTotal(NestedWrapper(json_value, structure_type)) = JNull) =>
        ZeroTotalFlagged(normalized,
                         InputItems(NestedWrapper(json_value, structure_type)))

\* the anomaly list holds an entry that starts with the message
Reports(anomalies, message) ==
    \E k \in 1..Len(anomalies) : StartsWith(anomalies[k].str, message)

\* orderRequest.id is missing or empty
IdMissing(order_request) == GetOr(order_request, "id", JStr("")) = JStr("")

\* the customer of the request, given as an object or as a string, has an
\* empty name
CustomerNameEmpty(order_request) ==
    \/ ~HasKey(order_request, "customer")
    \/ Get(order_request, "customer") = JStr("")
    \/ /\ Get(order_request, "customer").t = "obj"
       /\ GetOr(Get(order_request, "customer"), "name", JStr("")) = JStr("")

\* the items list of the request is empty
ItemsEmpty(order_request) == GetOr(order_request, "items", JArr(<<>>)) = JArr(<<>>)

\* every quantity that is multiplied with a unit price converts with int()
QuantitiesConvert(items) ==
    \A k \in 1..Len(items) :
        (items[k].t = "obj" /\ IsNumber(GetOrNone(items[k], "unitPrice")))
            => ~PyInt(GetOr(items[k], "quantity", JNum(FALSE, 0))).raises

\* each defect of the request has its anomaly, and the record is built from
\* the fields of the request
DefectsReported(o, order_request) ==
    /\ IdMissing(order_request) => Reports(o.anomalies, "Missing orderRequest.id")
    /\ CustomerNameEmpty(order_request) => Reports(o.anomalies, "Missing customer name")
    /\ ItemsEmpty(order_request) => Reports(o.anomalies, "orderRequest.items is empty")
    /\ HasCanonicalKeys(o.reformatted)
    /\ Get(o.reformatted, "order_id") = JStr(PyStr(GetOr(order_request, "id", JStr(""))))
    /\ HasKey(o.reformatted, "additional_info")

\* C24: for every nested order request a missing or empty orderRequest.id,
\* an empty customer name and an empty items list each append their own
\* anomaly without aborting: a record built from the remaining fields is
\* still returned.
C24_DefectsAreReported ==
    (/\ Normalizing
     /\ structure_type = "nested_order_request"
     /\ GetOrNone(json_value, "orderRequest").t = "obj"
     /\ QuantitiesConvert(InputItems(Get(json_value, "orderRequest")))) =>
        /\ ~normalized.raises
        /\ DefectsReported(normalized, Get(json_value, "orderRequest"))

\* the value under the first key, or else under the second, Absent when the
\* object has neither
FirstOf(o, first, second) ==
    IF HasKey(o, first) THEN Get(o, first)
    ELSE IF HasKey(o, second) THEN Get(o, second)
    ELSE Absent

\* the items of the record are the list the order gives under items or else
\* under products
ItemsTaken(record, order) ==
    FirstOf(order, "items", "products").t = "arr"
        => Get(record, "items") = FirstOf(order, "items", "products")

\* the total of the record is the number the order gives under total or
\* else under amount, and the total recomputed from the items when the order
\* gives neither
TotalTaken(record, order) ==
    /\ FirstOf(order, "total", "amount").t = "num"
          => Get(record, "total_amount").c = FirstOf(order, "total", "amount").c
    /\ FirstOf(order, "total", "amount") = Absent
          => Get(record, "total_amount").c
                = calculate_total_from_items(InputItems(order), Len(InputItems(order))).val

\* C25: for every nested order the items are taken from order.items or else
\* from order.products, the total from order.total or else from
\* order.amount; when neither is present total_amount is the total
\* recomputed from the items, and a total that is present is passed through
\* unchanged.
C25_SynonymsAndRecompute ==
    (/\ Normalizing
     /\ structure_type = "nested_order"
     /\ GetOrNone(json_value, "order").t = "obj"
     /\ ~normalized.raises
     /\ ~Reports(normalized.anomalies, "Processing error")) =>
        /\ ItemsTaken(normalized.reformatted, Get(json_value, "order"))
        /\ TotalTaken(normalized.reformatted, Get(json_value, "order"))

\* the object that holds the fields of the RFQ: the one under rfq when the
\* root has that wrapper, the root otherwise
RfqData(d) == IF GetOrNone(d, "rfq").t = "obj" THEN Get(d, "rfq") ELSE d

\* the RFQ has neither of the two keys
Lacks(rfq_data, first, second) == FirstOf(rfq_data, first, second) = Absent

\* C26: for every RFQ structure, with or without an rfq wrapper at the
\* root, total_amount of the record is 0, and a missing id (rfq_number or
\* id) and a missing vendor or customer name each append an anomaly.
C26_RfqTotalIsZero ==
    (Normalizing /\ structure_type = "rfq_structure") =>
        /\ ~normalized.raises
        /\ Get(normalized.reformatted, "total_amount").c = 0
        /\ Lacks(RfqData(json_value), "rfq_number", "id")
              => Reports(normalized.anomalies, "Missing RFQ number or ID")
        /\ Lacks(RfqData(json_value), "vendor", "customer")
              => Reports(normalized.anomalies, "Missing vendor/customer information")

\* the anomaly that counts the items of an array of n items
CountAnomaly(n) ==
    JStr("Array contains " \o IntToStr(n) \o " items, processed only the first one")

\* o is what the dispatch answered for the first item (first), with the
\* count of the n - 1 other items noted when there are any
FirstItemNoted(o, first, n) ==
    /\ ~o.raises
    /\ ~first.raises
    /\ IF n = 1
       THEN o.reformatted = first.reformatted /\ o.anomalies = first.anomalies
       ELSE /\ o.reformatted = ObjPut(first.reformatted, "additional_items_count",
                                      JNum(FALSE, 100 * (n - 1)))
            /\ o.anomalies = Append(first.anomalies, CountAnomaly(n))

\* C27: for every top-level array of n >= 1 items the normalization
\* terminates and returns exactly the record and the anomalies the same
\* dispatch produces for item 0 (also when item 0 is an array); for n > 1 it
\* appends one count anomaly and sets additional_items_count = n - 1.
C27_ArrayIsFirstItem ==
    (Normalizing /\ structure_type = "array_structure" /\ Len(json_value.arr) >= 1) =>
        FirstItemNoted(normalized, process_json_structure(json_value.arr[1]),
                       Len(json_value.arr))

\* the value of the first key, depth first (the keys of an object in
\* insertion order, a key before what its value holds, the items of an array
\* in ascending order), that is one of the names in lower case; Absent when
\* no key matches
RECURSIVE DepthFirst(_, _)
RECURSIVE FirstInMembers(_, _, _)
RECURSIVE FirstInElements(_, _, _)
FirstInMembers(o, i, names) ==
    IF i > Len(o.keys) THEN Absent
    ELSE IF Lower(o.keys[i]) \in names THEN o.vals[i]
    ELSE IF DepthFirst(o.vals[i], names) # Absent THEN DepthFirst(o.vals[i], names)
    ELSE FirstInMembers(o, i + 1, names)

FirstInElements(elems, i, names) ==
    IF i > Len(elems) THEN Absent
    ELSE IF DepthFirst(elems[i], names) # Absent THEN DepthFirst(elems[i], names)
    ELSE FirstInElements(elems, i + 1, names)

DepthFirst(v, names) ==
    IF v.t = "obj" THEN FirstInMembers(v, 1, names)
    ELSE IF v.t = "arr" THEN FirstInElements(v.arr, 1, names)
    ELSE Absent

\* the value of the first matching key, None when no key matches
FirstValue(d, names) == IF DepthFirst(d, names) = Absent THEN JNull ELSE DepthFirst(d, names)

id_names == {"id", "order_id", "orderid", "number"}

customer_names == {"customer", "client", "name", "customer_name"}

items_names == {"items", "products", "orders", "line_items"}

total_names == {"total", "amount", "total_amount", "price"}

\* each field of the record is what the first matching key gives
TakenFromFirstKey(record, d) ==
    /\ Get(record, "order_id") = CustomId(FirstValue(d, id_names))
    /\ Get(record, "customer_name") = CustomCustomer(FirstValue(d, customer_names))
    /\ Get(record, "items") = CustomItems(FirstValue(d, items_names))
    /\ Get(record, "total_amount") = CustomTotal(FirstValue(d, total_names))

\* C28: for every custom structure each target field (id, customer, items,
\* total) is taken from the first key, depth first over the whole tree, that
\* matches one of the synonyms of the field; a later match never replaces an
\* earlier one.
C28_FirstKeyWins ==
    (Normalizing /\ structure_type = "custom_structure") =>
        /\ ~normalized.raises
        /\ TakenFromFirstKey(normalized.reformatted, json_value)

(***************************************************************************)
(* SharedMemory on its own: instances of the class share the Redis server  *)
(* and each keeps its fallback map; save_context and update_context are    *)
(* called on them in any order, for any thread_id.  The calls are          *)
(* synchronous and the handlers run on one event loop, so a call is one    *)
(* step.  Each call sent to the server goes through or fails.              *)
(***************************************************************************)
\* Largest number of contexts created.
MaxThreads == 2

\* Largest number of calls that write: creations and merges that find a
\* context.
MaxWrites == 4

\* the instances called
MemoryCallers == {"classifier", "json_agent"}

\* the thread ids calls are made with: the ids save_context generates, and
\* one that is never generated
ThreadIds == {Uuid(k) : k \in 1..MaxThreads} \cup {"test-thread-id"}

\* the extracted_data a context is created with
InitialData == JObj(<<"raw_text">>, <<JStr("Sample RFQ data")>>)

\* the partial data each instance merges
MergeData(agent) ==
    IF agent = "classifier"
    THEN JObj(<<"raw_text">>, <<JStr("Sample RFQ data, retyped")>>)
    ELSE JObj(<<"json_anomalies", "json_structure_type">>,
              <<JArr(<<>>), JStr("flat_order")>>)

InitMemory ==
    /\ redis = NoEntries
    /\ redis_client \in {[a \in Agents |-> b] : b \in BOOLEAN}
    /\ fallback_storage = [a \in Agents |-> NoEntries]
    /\ issued = 0
    /\ clock = 0
    /\ called = NotCalled
    /\ in_flight = NoneInFlight
    /\ returned = JNull
    /\ pc = ""
    /\ DetectIdle
    /\ IntentIdle
    /\ FileIdle
    /\ ClassifyIdle
    /\ JsonIdle
    /\ PipelineIdle

\* what a call of SharedMemory leaves alone
OutsideMemory ==
    <<input_data, inputIsStr, source, isfile, file_content, file_decodes, pdf_library,
      pc, fmt, text, llm, result, intent, thread_id, json_value, structure_type,
      normalized, agent_result, output_logs, response>>

\* thread_id = memory.save_context(source, input_type, intent, extracted_data)
SaveContext ==
    /\ issued < MaxThreads
    /\ clock < MaxWrites
    /\ \E agent \in MemoryCallers, redis_ok \in BOOLEAN :
          save_context(agent, "samples/sample_rfq.json", "JSON", "RFQ", InitialData,
                       redis_ok)
    /\ UNCHANGED OutsideMemory

\* memory.update_context(thread_id, additional_data)
UpdateContext ==
    /\ clock < MaxWrites
    /\ \E agent \in MemoryCallers, tid \in ThreadIds, get_ok \in BOOLEAN,
          set_ok \in BOOLEAN :
          update_context(agent, tid, MergeData(agent), get_ok, set_ok)
    /\ UNCHANGED <<redis_client, issued>>
    /\ UNCHANGED OutsideMemory

NextMemory == SaveContext \/ UpdateContext

SpecMemory == InitMemory /\ [][NextMemory]_vars

\* a context is stored under the thread_id, on the server or in a fallback
\* map
Stored(tid) ==
    tid \in DOMAIN redis \/ \E a \in Agents : tid \in DOMAIN fallback_storage[a]

\* the thread ids generated so far
IssuedIds == {Uuid(k) : k \in 1..issued}

\* the step is a call of save_context
Saving == called'.op = "save_context" /\ issued' = issued + 1

\* what the server holds under tid, "" when nothing
OnServer(tid) == IF tid \in DOMAIN redis THEN redis[tid] ELSE ""

\* what the fallback map of the instance holds under tid, None when nothing
InFallback(a, tid) ==
    IF tid \in DOMAIN fallback_storage[a] THEN fallback_storage[a][tid] ELSE JNull

\* the step leaves everything stored under tid as it is
Untouched(tid) ==
    /\ OnServer(tid)' = OnServer(tid)
    /\ \A a \in Agents : InFallback(a, tid)' = InFallback(a, tid)

\* C14: every save_context call returns a thread_id that was never issued
\* before and stores a context of its own under it, and a create or a merge
\* made for one thread_id leaves the context stored under every other
\* thread_id as it is, whatever the order of the calls.
C14_ThreadsAreIndependent ==
    [][\A t \in ThreadIds :
          /\ (Saving /\ called'.thread_id = t) =>
                /\ returned' = JStr(t)
                /\ t \notin IssuedIds
                /\ ~Stored(t)
                /\ Stored(t)'
                /\ t \in DOMAIN redis' =>
                      Get(json_loads(redis'[t]).val, "thread_id") = JStr(t)
                /\ \A a \in Agents :
                      t \in DOMAIN fallback_storage'[a] =>
                          Get(fallback_storage'[a][t], "thread_id") = JStr(t)
          /\ called'.thread_id # t => Untouched(t)]_vars

\* two contexts have been created and merged into, on the server and in a
\* fallback map
C14_Witness ==
    /\ issued = 2
    /\ clock = 4
    /\ called.op = "update_context"
    /\ returned = JBool(TRUE)
    /\ \E t \in ThreadIds : t # called.thread_id /\ Stored(t)
    /\ \E t \in ThreadIds, a \in Agents :
          t \in DOMAIN redis /\ t \notin DOMAIN fallback_storage[a]
    /\ \E t \in ThreadIds, a \in Agents : t \in DOMAIN fallback_storage[a]

\* C15: update_context does not raise: it returns True or False.  Called
\* with a thread_id under which no context is stored, it returns False and
\* no context is stored under that thread_id afterwards.
C15_UnknownThreadIsRefused ==
    [][\A t \in ThreadIds :
          (called'.op = "update_context" /\ called'.thread_id = t) =>
              /\ returned' \in {JBool(TRUE), JBool(FALSE)}
              /\ ~Stored(t) => (returned' = JBool(FALSE) /\ ~Stored(t)')]_vars

\* update_context has been called with a thread_id that has no context
\* while another thread_id has one
C15_Witness ==
    /\ called.op = "update_context"
    /\ ~Stored(called.thread_id)
    /\ returned = JBool(FALSE)
    /\ issued > 0

\* the fields of a context that are set at creation
CreationFields == {"thread_id", "source", "type", "intent"}

\* the keys of an object
KeysOf(o) == {o.keys[i] : i \in 1..Len(o.keys)}

\* a merge of additional_data has turned the context before into the context
\* after: the creation fields are the same, the keys of extracted_data that
\* additional_data does not name are there with their values, the keys it
\* names have its values, and no other key has appeared
MergePreserved(before, after, additional_data) ==
    /\ \A k \in CreationFields : Get(after, k) = Get(before, k)
    /\ KeysOf(Get(after, "extracted_data"))
          = KeysOf(Get(before, "extracted_data")) \cup KeysOf(additional_data)
    /\ \A k \in KeysOf(additional_data) :
          Get(Get(after, "extracted_data"), k) = Get(additional_data, k)
    /\ \A k \in KeysOf(Get(before, "extracted_data")) \ KeysOf(additional_data) :
          Get(Get(after, "extracted_data"), k) = Get(Get(before, "extracted_data"), k)

\* C16: a merge that succeeds changes only the extracted_data keys named in
\* its partial data and the timestamp: thread_id, source, format and intent
\* stay as they are, and every extracted_data key written before under
\* another name is still there with its value.
C16_MergesOnlyAdd ==
    [][\A a \in MemoryCallers, t \in ThreadIds :
          (called' = UpdateCall(a, t, MergeData(a)) /\ returned' = JBool(TRUE)
             /\ clock' = clock + 1) =>
              MergePreserved(get_context(a, t, TRUE),
                             LookupIn(redis', fallback_storage'[a], redis_client'[a],
                                      t, TRUE).context,
                             MergeData(a))]_vars

\* the step is a call of update_context that returns False
Refusing == called'.op = "update_context" /\ returned' = JBool(FALSE)

\* C30: whenever update_context returns False (the thread_id is unknown, or
\* the write to the store fails after the context was read), the context
\* stored under every thread_id, on the server and in the fallback maps, is
\* identical to what it was before the call.
C30_RefusedMergeChangesNothing ==
    [][Refusing => \A t \in ThreadIds : Untouched(t)]_vars

\* every entry held by the Redis server or by a fallback map
StoredEntries ==
    {<<"server", t>> : t \in DOMAIN redis}
      \cup UNION {{<<a, t>> : t \in DOMAIN fallback_storage[a]} : a \in Agents}

RecordedFormats == {"PDF", "JSON", "Email", "Unknown"}

\* classify took its except branch
ErrorPathTaken == HasKey(Get(RecordedContext, "extracted_data"), "error")

\* C17: a call of classify, through its try branch or through its except
\* branch, has recorded exactly one context when it returns; the thread_id
\* it returns is the one of that context, the format it returns is PDF,
\* JSON, Email or Unknown, and the format and the intent it returns are the
\* ones recorded.
C17_ClassifyRecordsOnce ==
    /\ pc = "classify" => StoredEntries = {}
    /\ pc = "returned" =>
          /\ Cardinality(StoredEntries) = 1
          /\ issued = 1
          /\ called.op = "save_context" /\ called.agent = "classifier"
          /\ returned = JStr(thread_id)
          /\ Stored(thread_id)
          /\ Get(RecordedContext, "thread_id") = JStr(thread_id)
          /\ fmt \in RecordedFormats
          /\ Get(RecordedContext, "type") = JStr(fmt)
          /\ intent # ""
          /\ Get(RecordedContext, "intent") = JStr(intent)

\* classify has returned from its except branch after finding no text, and
\* the context is in the fallback map
C17_Witness ==
    /\ pc = "returned"
    /\ text = ""
    /\ ErrorPathTaken
    /\ called.additional_data = Get(RecordedContext, "extracted_data")
    /\ thread_id \in DOMAIN fallback_storage["classifier"]

\* the extracted_data key the agent the document is routed to merges
AgentKey ==
    IF fmt = "JSON" THEN "json_reformatted_data"
    ELSE IF fmt = "PDF" THEN "pdf_extracted_data"
    ELSE "email_extracted_data"

\* the context has the classifier's raw_text and the key next to it
HoldsBoth(context, key) ==
    /\ context # JNull
    /\ HasKey(Get(context, "extracted_data"), "raw_text")
    /\ HasKey(Get(context, "extracted_data"), key)

\* C18: once process_file has answered for a document, the context that
\* get_context returns for its thread_id holds the key merged by the agent
\* the document was routed to next to the keys of the classifier, with a
\* Redis server as with the fallback maps.
C18_MergeFindsContext ==
    (pc = "done" /\ response.status = 200) =>
        \E a \in Agents : HoldsBoth(get_context(a, thread_id, TRUE), AgentKey)

(***************************************************************************)
(* PDFAgent.extract_fields_fallback on its own: a text and an intent are   *)
(* drawn and the function is called once.                                  *)
(***************************************************************************)
FallbackTexts ==
    {"Invoice #INV001 Date: 01/01/2023 Amount: $500.00",
     "RFQ #RFQ123 Deadline: 12/31/2023",
     "Invoice Number: A-77 Total: 1,250.50",
     "INV-2041 paid 12.50 USD on 2023-05-01",
     "Total: , Amount: $75",
     "Total , due",
     "",
     "Request for Quote #Q-9 Due Date: 1/2/24",
     "Reference #C-12 urgent refund",
     "No ref, critical issue. $ ,",
     "Payment of $ 1,000 due",
     "invoice: 2023-05-01",
     "Due 1/2/24, Date 3-4-2023",
     "Total amount $20",
     "Deadline 12-31-23 RFQ: X1",
     "rfq",
     "Invoice\n#\n:\nINV9",
     "5.5 USD, $,, 3.25usd",
     "Amount: 1.2.3",
     "TOTAL$7. request  for\tquote x_1 DUE\nDATE.9/9/99"}

FallbackIntents == {"Invoice", "RFQ", "Complaint", "invoice", "Regulation", "General Inquiry"}

InitFallback ==
    /\ text \in FallbackTexts
    /\ intent \in FallbackIntents
    /\ pc = "extract"
    /\ agent_result = JNull
    /\ input_data = "" /\ inputIsStr = TRUE /\ source = "" /\ isfile = FALSE /\ fmt = ""
    /\ llm = NoReply /\ result = JNull
    /\ FileIdle
    /\ thread_id = ""
    /\ redis = NoEntries
    /\ redis_client = [a \in Agents |-> FALSE]
    /\ fallback_storage = [a \in Agents |-> NoEntries]
    /\ issued = 0
    /\ clock = 0
    /\ called = NotCalled
    /\ in_flight = NoneInFlight
    /\ returned = JNull
    /\ JsonIdle
    /\ output_logs = NoEntries
    /\ response = NoResponse

\* result = agent.extract_fields_fallback(text, intent)
ExtractFieldsFallback ==
    /\ pc = "extract"
    /\ agent_result' = extract_fields_fallback(text, intent)
    /\ pc' = "done"
    /\ UNCHANGED <<input_data, inputIsStr, source, isfile, fmt, text, llm, result, intent,
                   thread_id, output_logs, response>>
    /\ UNCHANGED FileVars
    /\ UNCHANGED MemoryVars
    /\ UNCHANGED JsonVars

NextFallback == ExtractFieldsFallback

SpecFallback == InitFallback /\ [][NextFallback]_vars

\* the patterns of the list that match the text
Matching(patterns, txt) == {k \in 1..Len(patterns) : re_search(patterns[k], txt).ok}

\* the least member of a set of numbers
Least(S) == CHOOSE k \in S : \A j \in S : k <= j

\* the group of the first pattern of the list that matches, the default when
\* none matches
ByOrder(patterns, txt, default) ==
    IF Matching(patterns, txt) = {} THEN default
    ELSE JStr(Group1(txt, re_search(patterns[Least(Matching(patterns, txt))], txt)))

\* the amount patterns whose match is a number for float()
Convertible(txt) ==
    {k \in Matching(amount_patterns, txt) :
        ~AmountOf(txt, re_search(amount_patterns[k], txt)).raises}

\* the fields other than the amount, and the two examples
FieldsByOrder ==
    /\ Lower(intent) = "invoice" =>
          /\ Get(agent_result, "invoice_number")
                = ByOrder(invoice_patterns, text, JStr("Not Found"))
          /\ Get(agent_result, "date") = ByOrder(date_patterns, text, JStr("Not Found"))
    /\ Lower(intent) = "rfq" =>
          /\ Get(agent_result, "rfq_number") = ByOrder(rfq_patterns, text, JStr("Not Found"))
          /\ Get(agent_result, "deadline")
                = ByOrder(deadline_patterns, text, JStr("Not Found"))
    /\ (text = "Invoice #INV001 Date: 01/01/2023 Amount: $500.00" /\ intent = "Invoice") =>
          /\ Get(agent_result, "invoice_number") = JStr("INV001")
          /\ Get(agent_result, "amount") = JNum(TRUE, 50000)
          /\ Get(agent_result, "date") = JStr("01/01/2023")
    /\ (text = "RFQ #RFQ123 Deadline: 12/31/2023" /\ intent = "RFQ") =>
          /\ Get(agent_result, "rfq_number") = JStr("RFQ123")
          /\ Get(agent_result, "deadline") = JStr("12/31/2023")

\* C20 as stated: extract_fields_fallback gives every field the group of the
\* first pattern of its list that matches, the amount being that group as a
\* number, and "Not Found" (0.0 for the amount) when no pattern matches; the
\* invoice and the RFQ example give the values of the test.
C20_FirstMatchingPattern ==
    pc = "done" =>
        /\ FieldsByOrder
        /\ Lower(intent) = "invoice" =>
              IF Matching(amount_patterns, text) = {}
              THEN Get(agent_result, "amount") = JNum(TRUE, 0)
              ELSE /\ Least(Matching(amount_patterns, text)) \in Convertible(text)
                   /\ Get(agent_result, "amount")
                         = AmountOf(text,
                                    re_search(amount_patterns[Least(Matching(amount_patterns,
                                                                             text))],
                                              text)).val

\* C20, amended: as stated for the fields other than the amount; the amount
\* is the number of the first amount pattern whose match float() accepts,
\* and 0.0 when no pattern matches with such a match.
C20_FirstConvertiblePattern ==
    pc = "done" =>
        /\ FieldsByOrder
        /\ Lower(intent) = "invoice" =>
              IF Convertible(text) = {}
              THEN Get(agent_result, "amount") = JNum(TRUE, 0)
              ELSE Get(agent_result, "amount")
                      = AmountOf(text,
                                 re_search(amount_patterns[Least(Convertible(text))],
                                           text)).val

\* the first amount pattern matches commas only and the amount comes from
\* the second pattern; the invoice number comes from the first of two
\* patterns that match
C20_Witness ==
    /\ pc = "done"
    /\ intent = "Invoice"
    /\ 1 \in Matching(amount_patterns, text) \ Convertible(text)
    /\ Get(agent_result, "amount") = JNum(TRUE, 7500)
    /\ Get(agent_result, "invoice_number") = JStr("Not Found")

(***************************************************************************)
(* EmailAgent.process and PDFAgent.process called directly, as the tests  *)
(* do: another SharedMemory instance saves a context, then the agent is   *)
(* called with the thread_id that was returned or with one that was never *)
(* generated.                                                             *)
(***************************************************************************)
\* the email_content arguments
AgentMails ==
    {"From: customer@example.com\nSubject: Order issue\n\nPlease help",
     "From:\nSubject: Hello",
     "From: \n\n  Dear team",
     "Subject: Hi\nFrom:  bob@x.org  \nurgent",
     "Message From: a@b.com\nsoon",
     "Hello, no headers here",
     "From:   ",
     "From:",
     ""}

\* what the PDF libraries do with the document
AgentReaders ==
    {[raises |-> TRUE, error |-> "EOF marker not found", error_type |-> "PdfReadError"],
     [raises |-> FALSE, pages |-> <<"Invoice #INV001 Amount: $500.00">>],
     [raises |-> FALSE, pages |-> <<"RFQ #RFQ123 Deadline: 12/31/2023">>],
     [raises |-> FALSE, pages |-> <<"Amount: 1.2.3">>],
     [raises |-> FALSE, pages |-> <<"  ">>]}

\* the calls: the agent, its first argument (None is not a str), and for a
\* path whether the file exists
AgentCalls ==
    {[agent |-> "Email", input_data |-> m, is_str |-> TRUE, exists |-> FALSE] :
        m \in AgentMails}
    \cup {[agent |-> a, input_data |-> "None", is_str |-> FALSE, exists |-> FALSE] :
            a \in {"Email", "PDF"}}
    \cup {[agent |-> "PDF", input_data |-> "samples/sample_invoice.pdf", is_str |-> TRUE,
           exists |-> e] : e \in BOOLEAN}

InitAgents ==
    /\ \E c \in AgentCalls :
          /\ fmt = c.agent
          /\ input_data = c.input_data
          /\ inputIsStr = c.is_str
          /\ isfile = c.exists
          /\ llm \in (IF c.agent = "Email" THEN EmailReplies ELSE PdfReplies)
          /\ pdf_library \in (IF c.exists THEN AgentReaders ELSE {NoReader})
    /\ file_content = ""
    /\ file_decodes = TRUE
    /\ source = ""
    /\ text = ""
    /\ result = JNull
    /\ redis = NoEntries
    /\ redis_client \in {[a \in Agents |-> b] : b \in BOOLEAN}
    /\ fallback_storage = [a \in Agents |-> NoEntries]
    /\ issued = 0
    /\ clock = 0
    /\ called = NotCalled
    /\ in_flight = NoneInFlight
    /\ returned = JNull
    /\ pc = "save_context"
    /\ ClassifyIdle
    /\ JsonIdle
    /\ PipelineIdle

\* what a step of the test leaves alone
AgentCallVars ==
    <<input_data, inputIsStr, source, isfile, fmt, text, llm, result,
      file_content, file_decodes, pdf_library, redis_client, output_logs, response>>

\* thread_id = memory.save_context("samples/sample_invoice.pdf", "PDF", ...)
\* on an instance of the test's own; the id handed to the agent is that one
\* or "test-thread-id"
SaveTestContext ==
    /\ pc = "save_context"
    /\ \E label \in {"Invoice", "RFQ"}, redis_ok \in BOOLEAN :
          /\ save_context("classifier", "samples/sample_invoice.pdf", "PDF", label,
                          JObj(<<"raw_text">>, <<JStr("Invoice #INV001 Amount: $500.00")>>),
                          redis_ok)
          /\ intent' = label
    /\ thread_id' \in {Uuid(issued + 1), "test-thread-id"}
    /\ pc' = "process"
    /\ UNCHANGED agent_result
    /\ UNCHANGED <<input_data, inputIsStr, source, isfile, fmt, text, llm, result,
                   file_content, file_decodes, pdf_library, output_logs, response>>
    /\ UNCHANGED JsonVars

\* result = agent.process(f.read(), thread_id) of EmailAgent
EmailProcess ==
    /\ pc = "process"
    /\ fmt = "Email"
    /\ \E get_ok \in BOOLEAN, set_ok \in BOOLEAN :
          email_agent_process(input_data, inputIsStr, thread_id, llm, get_ok, set_ok)
    /\ pc' = "done"
    /\ UNCHANGED <<intent, thread_id, issued>>
    /\ UNCHANGED AgentCallVars
    /\ UNCHANGED JsonVars

\* result = agent.process("samples/sample_invoice.pdf", thread_id) of
\* PDFAgent; an argument that is not a str is read by no method
PdfProcess ==
    /\ pc = "process"
    /\ fmt = "PDF"
    /\ \E lookup_ok \in BOOLEAN, get_ok \in BOOLEAN, set_ok \in BOOLEAN :
          pdf_agent_process(thread_id, isfile /\ inputIsStr, file_content,
                            IF inputIsStr THEN pdf_library ELSE NoReader,
                            llm, lookup_ok, get_ok, set_ok)
    /\ pc' = "done"
    /\ UNCHANGED <<intent, thread_id, issued>>
    /\ UNCHANGED AgentCallVars
    /\ UNCHANGED JsonVars

NextAgents == SaveTestContext \/ EmailProcess \/ PdfProcess

SpecAgents == InitAgents /\ [][NextAgents]_vars

\* the rest of the line after the first "From:" of the text, stripped
FromLine(s) ==
    Strip(SubSeq(s, Find(s, "From:", 1) + 5, LineEnd(s, Find(s, "From:", 1) + 5)))

\* the sender is what the From: line holds; for a From: line that holds
\* nothing, no sender or the default
SenderFromLine(s, sender) ==
    \/ sender = JStr(FromLine(s))
    \/ FromLine(s) = "" /\ sender = JStr("unknown")

\* the LLM extraction is unavailable and the email has a From: line
RegexSender == fmt = "Email" /\ inputIsStr /\ llm.raises /\ Find(input_data, "From:", 1) # 0

\* C19: for every input and every thread_id, one with no stored context
\* included, PDFAgent.process and EmailAgent.process return a mapping and
\* never raise; with the LLM extraction unavailable EmailAgent.process
\* returns the sender taken from the From: line of the email
C19_AgentsAlwaysAnswer ==
    pc = "done" =>
        /\ agent_result.t = "obj"
        /\ RegexSender => SenderFromLine(input_data, Get(agent_result, "sender"))

(***************************************************************************)
(* update_context run by two processes on the same thread_id.  Each        *)
(* process has its own SharedMemory connected to the one Redis server.     *)
(* Inside a process the call is sequential; between processes the server   *)
(* sees the GET and the SETEX of each call in any order, so a call is      *)
(* three steps: the GET of get_context, the change of the local dict, the  *)
(* SETEX.                                                                  *)
(***************************************************************************)
\* Largest number of update_context calls the processes make together.
MaxCalls == 3

\* the processes that merge
Writers == {"json_agent", "email_agent"}

\* the thread_id both merge into
RaceThread == Uuid(1)

\* the partial data each process merges
RaceData(agent) ==
    IF agent = "json_agent"
    THEN MergeData(agent)
    ELSE JObj(<<"email_content_length">>, <<JNum(FALSE, 4200)>>)

\* the update_context calls begun so far
CallsBegun == in_flight["json_agent"].calls + in_flight["email_agent"].calls

InitRace ==
    /\ redis = Put(NoEntries, RaceThread,
                   Dumps(Context("samples/sample_rfq.json", "JSON", "RFQ", InitialData,
                                 RaceThread, 1), FALSE, 0))
    /\ redis_client = [a \in Agents |-> TRUE]
    /\ fallback_storage = [a \in Agents |-> NoEntries]
    /\ issued = 1
    /\ clock = 1
    /\ called = [op |-> "save_context", agent |-> "classifier", thread_id |-> RaceThread,
                 additional_data |-> InitialData]
    /\ returned = JStr(RaceThread)
    /\ in_flight = NoneInFlight
    /\ pc = ""
    /\ DetectIdle
    /\ IntentIdle
    /\ FileIdle
    /\ ClassifyIdle
    /\ JsonIdle
    /\ PipelineIdle

\* context = self.get_context(thread_id); if not context: return False
Got(agent, tid, additional_data, found) ==
    IF found.found
    THEN /\ in_flight' = [in_flight EXCEPT ![agent] =
                [pc |-> "merge", thread_id |-> tid, additional_data |-> additional_data,
                 read |-> found.context, context |-> found.context,
                 held |-> found.held, returned |-> JNull, calls |-> @.calls + 1]]
         /\ UNCHANGED <<called, returned>>
    ELSE /\ in_flight' = [in_flight EXCEPT ![agent] =
                [pc |-> "returned", thread_id |-> tid,
                 additional_data |-> additional_data, read |-> JNull,
                 context |-> JNull, held |-> FALSE, returned |-> JBool(FALSE),
                 calls |-> @.calls + 1]]
         /\ called' = UpdateCall(agent, tid, additional_data)
         /\ returned' = JBool(FALSE)

\* a process enters update_context and its get_context answers
GetStep ==
    /\ \E agent \in Writers, get_ok \in BOOLEAN :
          /\ in_flight[agent].pc \in {"idle", "returned"}
          /\ CallsBegun < MaxCalls
          /\ Got(agent, RaceThread, RaceData(agent), Lookup(agent, RaceThread, get_ok))
    /\ UNCHANGED <<redis, redis_client, fallback_storage, issued, clock>>
    /\ UNCHANGED OutsideMemory

\* the local dict after the two assignments; a dict held by fallback_storage
\* is that same dict
Changed(agent, call, merged) ==
    /\ in_flight' = [in_flight EXCEPT ![agent] =
                        [call EXCEPT !.pc = "setex", !.context = merged]]
    /\ fallback_storage' =
          IF call.held
          THEN [fallback_storage EXCEPT ![agent] = Put(@, call.thread_id, merged)]
          ELSE fallback_storage

\* context['extracted_data'].update(additional_data) and
\* context['timestamp'] = datetime.utcnow().isoformat()
MergeStep ==
    /\ \E agent \in Writers :
          /\ in_flight[agent].pc = "merge"
          /\ Changed(agent, in_flight[agent],
                     Merged(in_flight[agent].context, in_flight[agent].additional_data,
                            clock + 1))
    /\ clock' = clock + 1
    /\ UNCHANGED <<redis, redis_client, issued, called, returned>>
    /\ UNCHANGED OutsideMemory

\* the SETEX of the call and its return: True, or False when the SETEX
\* raises
Sent(agent, call, set_ok) ==
    /\ WriteBack(agent, call.thread_id, call.held, call.context, set_ok)
    /\ in_flight' = [in_flight EXCEPT ![agent] =
          [call EXCEPT !.pc = "returned",
                       !.returned = JBool(~redis_client[agent] \/ set_ok)]]
    /\ called' = UpdateCall(agent, call.thread_id, call.additional_data)
    /\ returned' = JBool(~redis_client[agent] \/ set_ok)

\* self.redis_client.setex(thread_id, 3600, json.dumps(context)); return True
SetStep ==
    /\ \E agent \in Writers, set_ok \in BOOLEAN :
          /\ in_flight[agent].pc = "setex"
          /\ Sent(agent, in_flight[agent], set_ok)
    /\ UNCHANGED <<redis_client, issued, clock>>
    /\ UNCHANGED OutsideMemory

NextRace == GetStep \/ MergeStep \/ SetStep

SpecRace == InitRace /\ [][NextRace]_vars

\* the step is the SETEX of the process going through
Writing(agent) ==
    /\ in_flight[agent].pc = "setex"
    /\ in_flight'[agent].pc = "returned"
    /\ in_flight'[agent].returned = JBool(TRUE)

\* the context the server holds under tid
OnServerContext(server, tid) == LookupIn(server, NoEntries, TRUE, tid, TRUE).context

\* C29: when two writers run update_context on the same thread_id
\* concurrently against the shared store, the last write wins: after the
\* write of a writer the stored context is the snapshot that writer read
\* plus its own keys, whatever the other writer stored in between, and the
\* stored context never becomes anything other than one writer's complete
\* write.  (The interleaving in which a key merged by the other writer is
\* lost is C29_Witness.)
C29_LastWriteWins ==
    [][/\ \A w \in Writers :
             Writing(w) =>
                 MergePreserved(in_flight[w].read,
                                OnServerContext(redis', RaceThread),
                                in_flight[w].additional_data)
       /\ redis' # redis => \E w \in Writers : Writing(w)]_vars

\* both writers have merged into the thread and returned True, and the
\* stored context has no key of one of them
C29_Witness ==
    \E w \in Writers, v \in Writers :
        /\ w # v
        /\ in_flight[w].pc = "returned" /\ in_flight[w].returned = JBool(TRUE)
        /\ in_flight[v].pc = "returned" /\ in_flight[v].returned = JBool(TRUE)
        /\ \A k \in KeysOf(RaceData(w)) :
              ~HasKey(Get(OnServerContext(redis, RaceThread), "extracted_data"), k)
        /\ \A k \in KeysOf(RaceData(v)) :
              HasKey(Get(OnServerContext(redis, RaceThread), "extracted_data"), k)

====
